---- MODULE Spec2Model ----
(***************************************************************************)
(* A model of opencode-config-wizard: the configuration store (loadConfig, *)
(* saveConfig and the JSON encoding of the Config type) and the commands   *)
(* that load, mutate and save the configuration file.                      *)
(*                                                                         *)
(* Conventions.                                                            *)
(*  - A Go string is a sequence of chunks; the empty string is <<>>.  The  *)
(*    character '/' is always a chunk of its own, so fmt.Sprintf("%s/%s")  *)
(*    is concatenation around <<"/">> and strings.Split(s, "/") cuts at    *)
(*    the "/" chunks.  Text typed at a numeric prompt is a sequence of     *)
(*    single characters.                                                   *)
(*  - A Go map is [nil |-> BOOLEAN, kv |-> function]: a nil map reads as   *)
(*    empty and panics on assignment.                                      *)
(*  - A Go pointer (to bool, int or ModelLimit) is <<>> (nil) or <<v>>.   *)
(*  - A JSON value is a record tagged by t.                                *)
(***************************************************************************)
EXTENDS Integers, Sequences, FiniteSets, TLC

VARIABLES dirExists, file, last, procs, cycle, loop

vars == <<dirExists, file, last, procs, cycle, loop>>

---------------------------------------------------------------------------
(* JSON values *)

JNull == [t |-> "null"]

JStr(s) == [t |-> "string", v |-> s]

JNum(n) == [t |-> "number", v |-> n]

JBool(b) == [t |-> "bool", v |-> b]

JArr(s) == [t |-> "array", v |-> s]

JObj(f) == [t |-> "object", v |-> f]

NoFields == [k \in {} |-> JNull]

\* the member k of a JSON object; JNull when j is no object or has no such key
Get(j, k) == IF j.t = "object" /\ k \in DOMAIN j.v THEN j.v[k] ELSE JNull

HasKey(j, k) == j.t = "object" /\ k \in DOMAIN j.v

---------------------------------------------------------------------------
(* Go values *)

NilMap == [nil |-> TRUE, kv |-> NoFields]

MakeMap == [nil |-> FALSE, kv |-> NoFields]

MapLen(m) == Cardinality(DOMAIN m.kv)

MapHas(m, k) == k \in DOMAIN m.kv

\* an assignment that drops every other entry of the map
MapPut_DropsOthers(m, k, v) == [nil |-> FALSE, kv |-> (k :> v)]

\* an assignment that leaves an entry already present as it is
MapPut_KeepsExisting(m, k, v) ==
    [nil |-> FALSE,
     kv  |-> [x \in (DOMAIN m.kv) \cup {k} |-> IF x \in DOMAIN m.kv THEN m.kv[x] ELSE v]]

\* m[k] = v on a non-nil map (on a nil map the program panics: see the callers)
MapPut(m, k, v) ==
    [nil |-> FALSE,
     kv  |-> [x \in (DOMAIN m.kv) \cup {k} |-> IF x = k THEN v ELSE m.kv[x]]]

\* delete(m, k): a no-op when k is absent or m is nil
MapDel(m, k) == [m EXCEPT !.kv = [x \in (DOMAIN m.kv) \ {k} |-> m.kv[x]]]

SchemaURL == <<"https:", "/", "/", "opencode.ai", "/", "config.json">>

NPMPackage == <<"@ai-sdk", "/", "openai-compatible">>

---------------------------------------------------------------------------
(* json.MarshalIndent on the types of types.go.  Map keys are written in   *)
(* sorted order, so an object is a function of its keys.                   *)

OmitEmpty(k, empty, j) == IF empty THEN NoFields ELSE (k :> j)

\* the strings written last to first
EncStrings_Reversed(s) == JArr([i \in DOMAIN s |-> JStr(s[Len(s) + 1 - i])])

EncStrings(s) == JArr([i \in DOMAIN s |-> JStr(s[i])])

EncStringMap(m) == JObj([k \in DOMAIN m.kv |-> JStr(m.kv[k])])

\* map[string]interface{}: the values are held as JSON values
EncAnyMap(m) == IF m.nil THEN JNull ELSE JObj(m.kv)

EncModelLimit(l) ==
    JObj(OmitEmpty("context", l.Context = 0, JNum(l.Context))
         @@ OmitEmpty("output", l.Output = 0, JNum(l.Output)))

EncModel(m) ==
    JObj(("name" :> JStr(m.Name))
         @@ OmitEmpty("id", m.ID = <<>>, JStr(m.ID))
         @@ (IF m.Limit = <<>> THEN NoFields
             ELSE ("limit" :> EncModelLimit(m.Limit[1]))))

EncModels(m) ==
    IF m.nil THEN JNull ELSE JObj([k \in DOMAIN m.kv |-> EncModel(m.kv[k])])

EncProvider(p) ==
    JObj(("npm" :> JStr(p.NPM))
         @@ ("name" :> JStr(p.Name))
         @@ ("options" :> EncAnyMap(p.Options))
         @@ ("models" :> EncModels(p.Models)))

EncMCPServer(s) ==
    JObj(("type" :> JStr(s.Type))
         @@ OmitEmpty("command", Len(s.Command) = 0, EncStrings(s.Command))
         @@ OmitEmpty("environment", MapLen(s.Environment) = 0,
                      EncStringMap(s.Environment))
         @@ OmitEmpty("url", s.URL = <<>>, JStr(s.URL))
         @@ OmitEmpty("headers", MapLen(s.Headers) = 0, EncStringMap(s.Headers))
         @@ OmitEmpty("oauth", MapLen(s.OAuth) = 0, JObj(s.OAuth.kv))
         @@ (IF s.Enabled = <<>> THEN NoFields
             ELSE ("enabled" :> JBool(s.Enabled[1])))
         @@ (IF s.Timeout = <<>> THEN NoFields
             ELSE ("timeout" :> JNum(s.Timeout[1]))))

EncConfig(c) ==
    JObj(("$schema" :> JStr(c.Schema))
         @@ ("provider" :>
               (IF c.Provider.nil THEN JNull
                ELSE JObj([k \in DOMAIN c.Provider.kv |->
                             EncProvider(c.Provider.kv[k])])))
         @@ OmitEmpty("model", c.Model = <<>>, JStr(c.Model))
         @@ OmitEmpty("small_model", c.SmallModel = <<>>, JStr(c.SmallModel))
         @@ OmitEmpty("enabled_providers", Len(c.EnabledProviders) = 0,
                      EncStrings(c.EnabledProviders))
         @@ OmitEmpty("disabled_providers", Len(c.DisabledProviders) = 0,
                      EncStrings(c.DisabledProviders))
         @@ OmitEmpty("mcp", MapLen(c.MCP) = 0,
                      JObj([k \in DOMAIN c.MCP.kv |-> EncMCPServer(c.MCP.kv[k])])))

---------------------------------------------------------------------------
(* json.Unmarshal into the types of types.go.  A JSON null leaves a string *)
(* or struct as it was and sets a map, slice or pointer to nil; an absent  *)
(* key leaves the field as it was; unknown keys are skipped.               *)

DecString(j, old) == IF j.t = "string" THEN j.v ELSE old

DecInt(j) == IF j.t = "number" THEN j.v ELSE 0

DecStrings(j) ==
    IF j.t = "array" THEN [i \in DOMAIN j.v |-> DecString(j.v[i], <<>>)] ELSE <<>>

DecStringMap(j) ==
    IF j.t = "object"
    THEN [nil |-> FALSE, kv |-> [k \in DOMAIN j.v |-> DecString(j.v[k], <<>>)]]
    ELSE NilMap

DecAnyMap(j) == IF j.t = "object" THEN [nil |-> FALSE, kv |-> j.v] ELSE NilMap

DecModelLimit(j) ==
    IF j.t = "object"
    THEN <<[Context |-> DecInt(Get(j, "context")), Output |-> DecInt(Get(j, "output"))]>>
    ELSE <<>>

DecModel(j) ==
    [Name  |-> DecString(Get(j, "name"), <<>>),
     ID    |-> DecString(Get(j, "id"), <<>>),
     Limit |-> DecModelLimit(Get(j, "limit"))]

DecModels(j) ==
    IF j.t = "object"
    THEN [nil |-> FALSE, kv |-> [k \in DOMAIN j.v |-> DecModel(j.v[k])]]
    ELSE NilMap

DecProvider(j) ==
    [NPM     |-> DecString(Get(j, "npm"), <<>>),
     Name    |-> DecString(Get(j, "name"), <<>>),
     Options |-> DecAnyMap(Get(j, "options")),
     Models  |-> DecModels(Get(j, "models"))]

\* DecMCPServer without the enabled field: a saved "enabled": false is lost
DecMCPServer_NoEnabled(j) ==
    [Type        |-> DecString(Get(j, "type"), <<>>),
     Command     |-> DecStrings(Get(j, "command")),
     Environment |-> DecStringMap(Get(j, "environment")),
     URL         |-> DecString(Get(j, "url"), <<>>),
     Headers     |-> DecStringMap(Get(j, "headers")),
     OAuth       |-> DecAnyMap(Get(j, "oauth")),
     Enabled     |-> <<>>,
     Timeout     |-> IF Get(j, "timeout").t = "number" THEN <<Get(j, "timeout").v>> ELSE <<>>]

DecMCPServer(j) ==
    [Type        |-> DecString(Get(j, "type"), <<>>),
     Command     |-> DecStrings(Get(j, "command")),
     Environment |-> DecStringMap(Get(j, "environment")),
     URL         |-> DecString(Get(j, "url"), <<>>),
     Headers     |-> DecStringMap(Get(j, "headers")),
     OAuth       |-> DecAnyMap(Get(j, "oauth")),
     Enabled     |-> IF Get(j, "enabled").t = "bool" THEN <<Get(j, "enabled").v>> ELSE <<>>,
     Timeout     |-> IF Get(j, "timeout").t = "number" THEN <<Get(j, "timeout").v>> ELSE <<>>]

\* Unmarshal(data, config): config holds the values set before the call
DecConfig(j, config) ==
    [Schema   |-> DecString(Get(j, "$schema"), config.Schema),
     Provider |-> IF ~HasKey(j, "provider") THEN config.Provider
                  ELSE IF Get(j, "provider").t = "object"
                       THEN [nil |-> FALSE,
                             kv  |-> [k \in (DOMAIN config.Provider.kv)
                                              \cup (DOMAIN Get(j, "provider").v) |->
                                        IF k \in DOMAIN Get(j, "provider").v
                                        THEN DecProvider(Get(j, "provider").v[k])
                                        ELSE config.Provider.kv[k]]]
                       ELSE NilMap,
     Model    |-> DecString(Get(j, "model"), config.Model),
     SmallModel |-> DecString(Get(j, "small_model"), config.SmallModel),
     EnabledProviders |-> IF HasKey(j, "enabled_providers")
                          THEN DecStrings(Get(j, "enabled_providers"))
                          ELSE config.EnabledProviders,
     DisabledProviders |-> IF HasKey(j, "disabled_providers")
                           THEN DecStrings(Get(j, "disabled_providers"))
                           ELSE config.DisabledProviders,
     MCP      |-> IF ~HasKey(j, "mcp") THEN config.MCP
                  ELSE IF Get(j, "mcp").t = "object"
                       THEN [nil |-> FALSE,
                             kv  |-> [k \in DOMAIN Get(j, "mcp").v |->
                                        DecMCPServer(Get(j, "mcp").v[k])]]
                       ELSE NilMap]

\* Unmarshal's type check: a value is null or of the JSON type of its field
IsA(j, t) == j.t = "null" \/ j.t = t

IsString(j) == IsA(j, "string")

\* the elements of an array, or the values of an object, are strings
AllStrings(j) == j.t \in {"array", "object"} => \A k \in DOMAIN j.v : IsString(j.v[k])

TypedLimit(j) ==
    /\ IsA(j, "object")
    /\ IsA(Get(j, "context"), "number")
    /\ IsA(Get(j, "output"), "number")

TypedModel(j) ==
    /\ IsA(j, "object")
    /\ IsString(Get(j, "name"))
    /\ IsString(Get(j, "id"))
    /\ TypedLimit(Get(j, "limit"))

TypedProvider(j) ==
    /\ IsA(j, "object")
    /\ IsString(Get(j, "npm"))
    /\ IsString(Get(j, "name"))
    /\ IsA(Get(j, "options"), "object")
    /\ IsA(Get(j, "models"), "object")
    /\ (Get(j, "models").t = "object" =>
          \A k \in DOMAIN Get(j, "models").v : TypedModel(Get(j, "models").v[k]))

TypedMCPServer(j) ==
    /\ IsA(j, "object")
    /\ IsString(Get(j, "type"))
    /\ IsA(Get(j, "command"), "array")
    /\ AllStrings(Get(j, "command"))
    /\ IsA(Get(j, "environment"), "object")
    /\ AllStrings(Get(j, "environment"))
    /\ IsString(Get(j, "url"))
    /\ IsA(Get(j, "headers"), "object")
    /\ AllStrings(Get(j, "headers"))
    /\ IsA(Get(j, "oauth"), "object")
    /\ IsA(Get(j, "enabled"), "bool")
    /\ IsA(Get(j, "timeout"), "number")

TypedConfig(j) ==
    /\ IsA(j, "object")
    /\ IsString(Get(j, "$schema"))
    /\ IsA(Get(j, "provider"), "object")
    /\ (Get(j, "provider").t = "object" =>
          \A k \in DOMAIN Get(j, "provider").v : TypedProvider(Get(j, "provider").v[k]))
    /\ IsString(Get(j, "model"))
    /\ IsString(Get(j, "small_model"))
    /\ IsA(Get(j, "enabled_providers"), "array")
    /\ AllStrings(Get(j, "enabled_providers"))
    /\ IsA(Get(j, "disabled_providers"), "array")
    /\ AllStrings(Get(j, "disabled_providers"))
    /\ IsA(Get(j, "mcp"), "object")
    /\ (Get(j, "mcp").t = "object" =>
          \A k \in DOMAIN Get(j, "mcp").v : TypedMCPServer(Get(j, "mcp").v[k]))

---------------------------------------------------------------------------
(* The configuration store: config.go *)

\* the file at the config path: absent, not JSON, or a JSON document
NoFile == [st |-> "absent", doc |-> JNull]

Malformed == [st |-> "malformed", doc |-> JNull]

JSONFile(d) == [st |-> "json", doc |-> d]

\* the Config loadConfig builds before it reads the file
NewConfig ==
    [Schema |-> SchemaURL, Provider |-> MakeMap, Model |-> <<>>, SmallModel |-> <<>>,
     EnabledProviders |-> <<>>, DisabledProviders |-> <<>>, MCP |-> NilMap]

\* Normalize without the check of config.MCP
Normalize_ProviderOnly(c) ==
    [c EXCEPT !.Provider = IF c.Provider.nil THEN MakeMap ELSE c.Provider]

\* the two nil checks that follow Unmarshal
Normalize(c) ==
    [c EXCEPT !.Provider = IF c.Provider.nil THEN MakeMap ELSE c.Provider,
              !.MCP = IF c.MCP.nil THEN MakeMap ELSE c.MCP]

loadConfig(f) ==
    IF f.st = "absent" THEN [err |-> FALSE, config |-> NewConfig]
    ELSE IF f.st = "malformed" \/ ~TypedConfig(f.doc)
         THEN [err |-> TRUE, config |-> NewConfig]
         ELSE [err |-> FALSE, config |-> Normalize(DecConfig(f.doc, NewConfig))]

\* os.WriteFile creates or truncates the file; it fails when the directory is missing
saveConfig(config, dir, f) ==
    IF dir THEN [err |-> FALSE, file |-> JSONFile(EncConfig(config))]
    ELSE [err |-> TRUE, file |-> f]

---------------------------------------------------------------------------
(* Text: strings, fmt and the prompts of prompt.go *)

\* the two parts joined without the "/"
Sprintf2_NoSlash(a, b) == a \o b

Sprintf2(a, b) == a \o <<"/">> \o b

\* strings.Split(s, "/"): the parts between the "/" chunks
RECURSIVE Split(_)
Split(s) ==
    IF \A i \in DOMAIN s : s[i] # "/" THEN <<s>>
    ELSE LET i == CHOOSE i \in DOMAIN s :
                    s[i] = "/" /\ \A j \in 1..(i - 1) : s[j] # "/"
         IN <<SubSeq(s, 1, i - 1)>> \o Split(SubSeq(s, i + 1, Len(s)))

DigitVal ==
    ("0" :> 0) @@ ("1" :> 1) @@ ("2" :> 2) @@ ("3" :> 3) @@ ("4" :> 4)
    @@ ("5" :> 5) @@ ("6" :> 6) @@ ("7" :> 7) @@ ("8" :> 8) @@ ("9" :> 9)

IsDigit(c) == c \in DOMAIN DigitVal

\* the value of the longest run of digits that starts s
RECURSIVE Digits(_, _)
Digits(s, acc) ==
    IF s = <<>> \/ ~IsDigit(Head(s)) THEN acc
    ELSE Digits(Tail(s), 10 * acc + DigitVal[Head(s)])

\* fmt.Sscanf(s, "%d", &n): an optional sign and decimal digits; text after the
\* digits is left unread.  ok is err == nil; n keeps its old value on an error.
Sscanf(s, old) ==
    LET signed == s # <<>> /\ Head(s) \in {"-", "+"}
        body   == IF signed THEN Tail(s) ELSE s
    IN IF body = <<>> \/ ~IsDigit(Head(body)) THEN [ok |-> FALSE, n |-> old]
       ELSE [ok |-> TRUE,
             n  |-> IF signed /\ Head(s) = "-" THEN 0 - Digits(body, 0)
                    ELSE Digits(body, 0)]

RECURSIVE TrimLeft(_)
TrimLeft(s) == IF s # <<>> /\ Head(s) = " " THEN TrimLeft(Tail(s)) ELSE s

RECURSIVE TrimRight(_)
TrimRight(s) ==
    IF s # <<>> /\ s[Len(s)] = " " THEN TrimRight(SubSeq(s, 1, Len(s) - 1)) ELSE s

\* TrimSpace that trims nothing
TrimSpace_Identity(s) == s

TrimSpace(s) == TrimRight(TrimLeft(s))

\* line is the line read from standard input (empty at the end of input)
promptString(line, defaultValue) ==
    LET input == TrimSpace(line) IN IF input = <<>> THEN defaultValue ELSE input

\* promptBool that takes every line for "yes"
promptBool_AlwaysYes(line, defaultValue) == TRUE

\* promptBool that takes a blank line for "no"
promptBool_BlankIsNo(line, defaultValue) == TrimSpace(line) \in {<<"y">>, <<"Y">>}

promptBool(line, defaultValue) ==
    LET input == TrimSpace(line)
    IN IF input = <<>> THEN defaultValue ELSE input \in {<<"y">>, <<"Y">>}

\* the orders in which a range over a map can visit the keys S
RECURSIVE Orders(_)
Orders(S) ==
    IF S = {} THEN {<<>>}
    ELSE UNION {{<<x>> \o s : s \in Orders(S \ {x})} : x \in S}

---------------------------------------------------------------------------
(* What a command leaves behind.  last records the command that ran last:  *)
(* the lines it read (read), what it loaded (loaded), how it ended (out),   *)
(* whether it returned an error (err) and whether it wrote the file.       *)
(*   out: "saved", "cancelled", "invalid", "notfound", "empty", "error",    *)
(*        "panic" (a run-time panic: the process dies, nothing is written)  *)

NotAsked == <<"(not asked)">>

\* no input loop is being followed
NoLoop == [name |-> "none", pc |-> "exit", stdin |-> <<>>, blanks |-> 0]

Outcome ==
    [out |-> "none", err |-> FALSE, save |-> FALSE, config |-> NewConfig,
     loaded |-> NewConfig, mkdir |-> FALSE, asked |-> <<>>, read |-> NoFields,
     key |-> <<>>, listing |-> <<>>, status |-> "none"]

\* the command op ends as r says: MkdirAll and saveConfig take effect
Idle ==
    [op |-> "none", src |-> "none", out |-> "none", err |-> FALSE,
     wrote |-> FALSE, prev |-> [st |-> "absent", doc |-> JNull], prevDir |-> FALSE,
     loaded |-> NewConfig, asked |-> <<>>, read |-> NoFields,
     key |-> <<>>, listing |-> <<>>, status |-> "none",
     exit |-> 0, stderr |-> FALSE, save |-> FALSE]

\* main.go:930-991: the case of a command prints a returned error to the error
\* stream and exits with 1, and falls off the end of main otherwise; a run
\* that panics is ended by the Go runtime, which prints the panic to the error
\* stream and exits with 2
exitStatus(out, err) == IF out = "panic" THEN 2 ELSE IF err THEN 1 ELSE 0

\* Two invocations of the tool at once.  Each is a process of its own: it
\* loads, holds its Config in memory while the prompts are answered, and
\* saves; os.WriteFile is an open that truncates the file followed by a write
\* at offset 0 (config.go:52), and nothing orders the steps of one process
\* against those of the other.
Procs == {"first", "second"}

Waiting ==
    [pc |-> "start", config |-> NewConfig, key |-> <<>>, early |-> FALSE,
     overlaid |-> FALSE]

NoProcs == [run |-> [p \in Procs |-> Waiting], saved |-> <<>>]

\* os.MkdirAll(configDir, 0755): the directory exists once it was called
MkdirAll_Skipped(exists, called) == exists

MkdirAll(exists, called) == exists \/ called

\* A run followed step by step: pc is "atomic" where runs are taken as one
\* step, else "shell", "running" or "returned"; r is the outcome the handler
\* computes from the file it loaded and the lines it is given, i the number of
\* prompts read so far, loads and writes count the calls of loadConfig and of
\* os.WriteFile, at is the file as it was loaded.
NoCycle ==
    [pc |-> "atomic", op |-> "none", src |-> "none", r |-> Outcome, i |-> 0,
     loads |-> 0, writes |-> 0, err |-> FALSE, at |-> NoFile]

AtShell == [NoCycle EXCEPT !.pc = "shell"]

\* the head of a handler: getConfigPath, MkdirAll where the handler has it,
\* loadConfig
Begin(op, src, r) ==
    /\ cycle.pc = "shell"
    /\ dirExists' = MkdirAll(dirExists, r.mkdir)
    /\ cycle' = [AtShell EXCEPT !.pc = "running", !.op = op, !.src = src, !.r = r,
                                !.loads = 1, !.at = file]
    /\ UNCHANGED <<file, last, procs, loop>>

\* the command op, started from the shell, ends as r0 says: MkdirAll and
\* saveConfig take effect.  Where runs are followed step by step this is the
\* head of the handler only.
Finish(op, src, r0) ==
    /\ last = Idle
    /\ cycle.pc \in {"atomic", "shell"}
    /\ \E r \in {r0} :
       IF cycle.pc # "atomic" THEN Begin(op, src, r)
       ELSE
       \E s \in {saveConfig(r.config, MkdirAll(dirExists, r.mkdir), file)} :
          /\ dirExists' = MkdirAll(dirExists, r.mkdir)
          /\ file' = IF r.save THEN s.file ELSE file
          /\ last' = [op |-> op, src |-> src,
                      out |-> IF r.save /\ s.err THEN "error" ELSE r.out,
                      err |-> r.err \/ (r.save /\ s.err), wrote |-> r.save /\ ~s.err,
                      prev |-> file, prevDir |-> dirExists, loaded |-> r.loaded,
                      asked |-> r.asked, read |-> r.read, key |-> r.key,
                      listing |-> r.listing, status |-> r.status,
                      exit |-> exitStatus(r.out, r.err \/ (r.save /\ s.err)),
                      stderr |-> r.out = "panic" \/ r.err \/ (r.save /\ s.err),
                      save |-> r.save]
          /\ UNCHANGED <<procs, cycle, loop>>

\* the process ends: what the run printed and returned is gone, the file stays
Exit ==
    /\ last # Idle
    /\ last' = Idle
    /\ UNCHANGED <<dirExists, file, procs, cycle, loop>>

---------------------------------------------------------------------------
(* provider.go: addProvider *)

DefaultKey == <<"custom">>

DefaultName == <<"Custom Provider">>

DefaultBaseURL == <<"http:", "/", "/", "localhost:11434", "/", "v1">>

\* the header loop of addProvider and addMCPServer: script holds, per round,
\* the lines read for the name, the value and "Add another header?"
RECURSIVE headerLoop(_, _, _)
headerLoop(headers, done, script) ==
    IF script = <<>> THEN [headers |-> headers, read |-> done, eof |-> TRUE]
    ELSE LET e           == Head(script)
             headerName  == promptString(e.name, <<>>)
             headerValue == promptString(e.value, <<>>)
             next        == IF headerValue # <<>>
                            THEN MapPut(headers, headerName, headerValue)
                            ELSE headers
         IN IF headerName = <<>>
            THEN [headers |-> headers,
                  read    |-> Append(done, [name |-> e.name, value |-> NotAsked,
                                            another |-> NotAsked]),
                  eof     |-> FALSE]
            ELSE IF ~promptBool(e.another, FALSE)
                 THEN [headers |-> next, read |-> Append(done, e), eof |-> FALSE]
                 ELSE headerLoop(next, Append(done, e), Tail(script))

\* readModel with the two limits stored in each other's field
readModel_SwapsLimits(modelID, e) ==
    LET modelName    == promptString(e.name, modelID)
        contextLimit == promptString(e.context, <<>>)
        outputLimit  == promptString(e.output, <<>>)
    IN [Name  |-> modelName,
        ID    |-> <<>>,
        Limit |-> IF promptBool(e.limits, FALSE)
                     /\ (contextLimit # <<>> \/ outputLimit # <<>>)
                  THEN <<[Context |-> IF outputLimit # <<>>
                                      THEN Sscanf(outputLimit, 0).n ELSE 0,
                          Output  |-> IF contextLimit # <<>>
                                      THEN Sscanf(contextLimit, 0).n ELSE 0]>>
                  ELSE <<>>]

\* the prompts for one model: display name and token limits
readModel(modelID, e) ==
    LET modelName    == promptString(e.name, modelID)
        contextLimit == promptString(e.context, <<>>)
        outputLimit  == promptString(e.output, <<>>)
    IN [Name  |-> modelName,
        ID    |-> <<>>,
        Limit |-> IF promptBool(e.limits, FALSE)
                     /\ (contextLimit # <<>> \/ outputLimit # <<>>)
                  THEN <<[Context |-> IF contextLimit # <<>>
                                      THEN Sscanf(contextLimit, 0).n ELSE 0,
                          Output  |-> IF outputLimit # <<>>
                                      THEN Sscanf(outputLimit, 0).n ELSE 0]>>
                  ELSE <<>>]

\* the lines of a model entry that were read
ReadEntry(e) ==
    [id |-> e.id, name |-> e.name, limits |-> e.limits,
     context |-> IF promptBool(e.limits, FALSE) THEN e.context ELSE NotAsked,
     output  |-> IF promptBool(e.limits, FALSE) THEN e.output ELSE NotAsked,
     another |-> e.another]

\* the model loop of addProvider: script holds the lines read per round
RECURSIVE modelLoop(_, _, _)
modelLoop(models, done, script) ==
    IF script = <<>> THEN [models |-> models, read |-> done]
    ELSE LET e       == Head(script)
             modelID == promptString(e.id, <<>>)
             next    == MapPut(models, modelID, readModel(modelID, e))
         IN IF modelID = <<>>
            THEN [models |-> models, read |-> done]
            ELSE IF ~promptBool(e.another, FALSE)
                 THEN [models |-> next, read |-> Append(done, ReadEntry(e))]
                 ELSE modelLoop(next, Append(done, ReadEntry(e)), Tail(script))

\* getFirstModelID: the first key a range over the map yields, which Go leaves
\* unspecified: any key of the map
getFirstModelID(models) ==
    IF MapLen(models) = 0 THEN {<<>>} ELSE DOMAIN models.kv

\* addProvider up to the choice of the default model.  auto is the older
\* condition (config.Model == "" || promptBool(...)) of main.go.
addProviderBody(f, in, auto) ==
    LET l           == loadConfig(f)
        config      == l.config
        providerKey == promptString(in.key, DefaultKey)
        displayName == promptString(in.name, DefaultName)
        baseURL     == promptString(in.url, DefaultBaseURL)
        apiKey      == promptString(in.apiKey, <<>>)
        opts0       == MapPut(MakeMap, "baseURL", JStr(baseURL))
        opts1       == IF apiKey # <<>> THEN MapPut(opts0, "apiKey", JStr(apiKey))
                       ELSE opts0
        wantHeaders == promptBool(in.addHeaders, FALSE)
        hl          == headerLoop(MakeMap, <<>>, in.headers)
        opts2       == IF wantHeaders /\ MapLen(hl.headers) > 0
                       THEN MapPut(opts1, "headers", EncStringMap(hl.headers))
                       ELSE opts1
        ml          == modelLoop(MakeMap, <<>>, in.models)
        provider    == [NPM |-> NPMPackage, Name |-> displayName,
                        Options |-> opts2, Models |-> ml.models]
        skipPrompt  == auto /\ config.Model = <<>>
        asks        == MapLen(ml.models) > 0 /\ ~skipPrompt
        sets        == MapLen(ml.models) > 0
                       /\ (skipPrompt \/ promptBool(in.setDefault, FALSE))
    IN [err      |-> l.err,
        loaded   |-> config,
        key      |-> providerKey,
        provider |-> provider,
        config   |-> [config EXCEPT !.Provider = MapPut(@, providerKey, provider)],
        sets     |-> sets,
        asks     |-> asks,
        asked    |-> <<"key", "name", "baseURL", "apiKey", "addHeaders">>
                     \o (IF wantHeaders THEN <<"headers">> ELSE <<>>)
                     \o <<"models">>
                     \o (IF asks THEN <<"setDefault">> ELSE <<>>),
        read     |-> [in EXCEPT !.headers = IF wantHeaders THEN hl.read ELSE <<>>,
                                !.models = ml.read,
                                !.setDefault = IF asks THEN in.setDefault ELSE NotAsked]]

addProvider(f, in, auto, first) ==
    LET b == addProviderBody(f, in, auto)
    IN IF b.err
       THEN [Outcome EXCEPT !.out = "error", !.err = TRUE, !.mkdir = TRUE]
       ELSE [Outcome EXCEPT
               !.out = "saved", !.save = TRUE, !.mkdir = TRUE,
               !.loaded = b.loaded, !.key = b.key, !.asked = b.asked,
               !.read = b.read,
               !.config = IF b.sets
                          THEN [b.config EXCEPT !.Model = Sprintf2(b.key, first)]
                          ELSE b.config]

---------------------------------------------------------------------------
(* provider.go: deleteProvider and deleteModel, with their older forms *)

\* getMenuChoice(max): -1 for an invalid entry, 0 for cancel, else 1..max
getMenuChoice(max) == (0 - 1)..max

Failed == [Outcome EXCEPT !.out = "error", !.err = TRUE]

\* provider.go:193-247: numbered menu, then a confirmation
deleteProvider(f, keys, choice, confirm) ==
    LET l            == loadConfig(f)
        config       == l.config
        keyToDelete  == keys[choice]
        o            == [Outcome EXCEPT !.loaded = config]
    IN IF l.err THEN Failed
       ELSE IF MapLen(config.Provider) = 0 THEN [o EXCEPT !.out = "empty"]
       ELSE IF choice = 0 - 1
            THEN [o EXCEPT !.out = "invalid", !.asked = <<"choice">>,
                           !.read = [choice |-> choice, confirm |-> NotAsked]]
       ELSE IF choice = 0
            THEN [o EXCEPT !.out = "cancelled", !.asked = <<"choice">>,
                           !.read = [choice |-> choice, confirm |-> NotAsked]]
       ELSE IF ~promptBool(confirm, FALSE)
            THEN [o EXCEPT !.out = "cancelled", !.key = keyToDelete,
                           !.asked = <<"choice", "confirm">>,
                           !.read = [choice |-> choice, confirm |-> confirm]]
       ELSE [o EXCEPT !.out = "saved", !.save = TRUE, !.key = keyToDelete,
                      !.asked = <<"choice", "confirm">>,
                      !.read = [choice |-> choice, confirm |-> confirm],
                      !.config = [config EXCEPT
                                    !.Provider = MapDel(@, keyToDelete)]]

\* main.go:315-359 (also provider.go:680-724): the key is typed, nothing is confirmed
deleteProviderByKey(f, line) ==
    LET l           == loadConfig(f)
        config      == l.config
        keyToDelete == promptString(line, <<>>)
        o           == [Outcome EXCEPT !.loaded = config]
        asked       == [o EXCEPT !.asked = <<"key">>, !.read = [key |-> line],
                                 !.key = keyToDelete]
    IN IF l.err THEN Failed
       ELSE IF MapLen(config.Provider) = 0 THEN [o EXCEPT !.out = "empty"]
       ELSE IF keyToDelete = <<>> THEN [asked EXCEPT !.out = "cancelled"]
       ELSE IF ~MapHas(config.Provider, keyToDelete)
            THEN [asked EXCEPT !.out = "notfound"]
       ELSE [asked EXCEPT !.out = "saved", !.save = TRUE,
                          !.config = [config EXCEPT
                                        !.Provider = MapDel(@, keyToDelete)]]

\* the <<provider key, model id>> pairs in the orders two nested ranges can list them
RECURSIVE PairListings(_, _)
PairListings(config, po) ==
    IF po = <<>> THEN {<<>>}
    ELSE LET p     == Head(po)
             mine  == {[i \in DOMAIN mo |-> <<p, mo[i]>>] :
                         mo \in Orders(DOMAIN config.Provider.kv[p].Models.kv)}
         IN {a \o b : a \in mine, b \in PairListings(config, Tail(po))}

ModelListings(config) ==
    UNION {PairListings(config, po) : po \in Orders(DOMAIN config.Provider.kv)}

\* removeModel without the reset of the default model
removeModel_KeepsDefault(config, providerKey, modelID, ref) ==
    [config EXCEPT !.Provider.kv[providerKey].Models = MapDel(@, modelID)]

\* delete(provider.Models, modelID) and the reset of the default model
removeModel(config, providerKey, modelID, ref) ==
    [config EXCEPT
       !.Provider.kv[providerKey].Models = MapDel(@, modelID),
       !.Model = IF config.Model = ref THEN <<>> ELSE @]

\* provider.go:249-335: one menu of "provider/model" references, split at "/"
deleteModel(f, pairs, choice, confirm) ==
    LET l             == loadConfig(f)
        config        == l.config
        models        == [i \in DOMAIN pairs |-> Sprintf2(pairs[i][1], pairs[i][2])]
        selectedModel == models[choice]
        parts         == Split(selectedModel)
        providerKey   == parts[1]
        modelID       == parts[2]
        o             == [Outcome EXCEPT !.loaded = config]
        chosen        == [o EXCEPT !.asked = <<"choice">>,
                                   !.read = [choice |-> choice, confirm |-> NotAsked]]
        picked        == [chosen EXCEPT !.key = selectedModel]
    IN IF l.err THEN Failed
       ELSE IF MapLen(config.Provider) = 0 THEN [o EXCEPT !.out = "empty"]
       ELSE IF Len(models) = 0 THEN [o EXCEPT !.out = "empty"]
       ELSE IF choice = 0 - 1 THEN [chosen EXCEPT !.out = "invalid"]
       ELSE IF choice = 0 THEN [chosen EXCEPT !.out = "cancelled"]
       ELSE IF Len(parts) # 2 THEN [picked EXCEPT !.out = "invalid"]
       ELSE IF ~MapHas(config.Provider, providerKey)
            THEN [picked EXCEPT !.out = "notfound"]
       ELSE IF ~MapHas(config.Provider.kv[providerKey].Models, modelID)
            THEN [picked EXCEPT !.out = "notfound"]
       ELSE IF ~promptBool(confirm, FALSE)
            THEN [picked EXCEPT !.out = "cancelled",
                                !.asked = <<"choice", "confirm">>,
                                !.read = [choice |-> choice, confirm |-> confirm]]
       ELSE [picked EXCEPT !.out = "saved", !.save = TRUE,
                           !.asked = <<"choice", "confirm">>,
                           !.read = [choice |-> choice, confirm |-> confirm],
                           !.config = removeModel(config, providerKey, modelID,
                                                  selectedModel)]

\* "Enter provider number or key": a number in range picks from the list,
\* anything else is taken as the key
resolveProvider(providers, selection) ==
    LET sc == Sscanf(selection, 0)
    IN IF sc.ok /\ sc.n > 0 /\ sc.n <= Len(providers) THEN providers[sc.n]
       ELSE selection

\* unnamed/part_001:248-349: the provider by number or key, the model by menu
deleteModelOfProvider(f, providers, line, modelKeys, choice, confirm) ==
    LET l           == loadConfig(f)
        config      == l.config
        selection   == promptString(line, <<>>)
        providerKey == resolveProvider(providers, selection)
        provider    == config.Provider.kv[providerKey]
        modelID     == modelKeys[choice]
        ref         == Sprintf2(providerKey, modelID)
        o           == [Outcome EXCEPT !.loaded = config]
        r1          == [o EXCEPT !.asked = <<"provider">>,
                                 !.read = [provider |-> line, choice |-> 0 - 2,
                                           confirm |-> NotAsked]]
        r2          == [r1 EXCEPT !.asked = <<"provider", "choice">>,
                                  !.read.choice = choice]
        r3          == [r2 EXCEPT !.key = ref]
    IN IF l.err THEN Failed
       ELSE IF MapLen(config.Provider) = 0 THEN [o EXCEPT !.out = "empty"]
       ELSE IF selection = <<>> THEN [r1 EXCEPT !.out = "cancelled"]
       ELSE IF ~MapHas(config.Provider, providerKey)
            THEN [r1 EXCEPT !.out = "notfound"]
       ELSE IF MapLen(provider.Models) = 0 THEN [r1 EXCEPT !.out = "empty"]
       ELSE IF choice = 0 - 1 THEN [r2 EXCEPT !.out = "invalid"]
       ELSE IF choice = 0 THEN [r2 EXCEPT !.out = "cancelled"]
       ELSE IF ~MapHas(provider.Models, modelID)
            THEN [r3 EXCEPT !.out = "notfound"]
       ELSE IF ~promptBool(confirm, FALSE)
            THEN [r3 EXCEPT !.out = "cancelled",
                            !.asked = <<"provider", "choice", "confirm">>,
                            !.read.confirm = confirm]
       ELSE [r3 EXCEPT !.out = "saved", !.save = TRUE,
                       !.asked = <<"provider", "choice", "confirm">>,
                       !.read.confirm = confirm,
                       !.config = removeModel(config, providerKey, modelID, ref)]

---------------------------------------------------------------------------
(* provider.go: setDefaultModel and addModel *)

\* provider.go:337-386
\* provider.go:835-877: the older form prints the pairs unnumbered and stores
\* the line typed, whatever it is; the listing is kept as the set of its lines
setDefaultModelLiteral(f, line) ==
    LET l             == loadConfig(f)
        config        == l.config
        models        == {Sprintf2(providerKey, modelID) :
                            <<providerKey, modelID>> \in
                              UNION {{<<p, m>> : m \in DOMAIN config.Provider.kv[p].Models.kv}
                                     : p \in DOMAIN config.Provider.kv}}
        selectedModel == promptString(line, <<>>)
        o             == [Outcome EXCEPT !.loaded = config, !.listing = models,
                                         !.asked = <<"model">>,
                                         !.read = [model |-> line]]
    IN IF l.err THEN Failed
       ELSE IF MapLen(config.Provider) = 0
            THEN [Outcome EXCEPT !.out = "empty", !.loaded = config]
       ELSE IF selectedModel = <<>> THEN [o EXCEPT !.out = "cancelled"]
       ELSE [o EXCEPT !.out = "saved", !.save = TRUE, !.key = selectedModel,
                      !.config = [config EXCEPT !.Model = selectedModel]]

setDefaultModel(f, pairs, choice) ==
    LET l             == loadConfig(f)
        config        == l.config
        models        == [i \in DOMAIN pairs |-> Sprintf2(pairs[i][1], pairs[i][2])]
        selectedModel == models[choice]
        o             == [Outcome EXCEPT !.loaded = config, !.listing = models,
                                         !.asked = <<"choice">>,
                                         !.read = [choice |-> choice]]
    IN IF l.err THEN Failed
       ELSE IF MapLen(config.Provider) = 0
            THEN [Outcome EXCEPT !.out = "empty", !.loaded = config]
       ELSE IF choice = 0 - 1 THEN [o EXCEPT !.out = "invalid"]
       ELSE IF choice = 0 THEN [o EXCEPT !.out = "cancelled"]
       ELSE [o EXCEPT !.out = "saved", !.save = TRUE, !.key = selectedModel,
                      !.config = [config EXCEPT !.Model = selectedModel]]

\* provider.go:388-485
addModel(f, providers, in) ==
    LET l           == loadConfig(f)
        config      == l.config
        selection   == promptString(in.provider, <<>>)
        providerKey == resolveProvider(providers, selection)
        provider    == config.Provider.kv[providerKey]
        modelID     == promptString(in.id, <<>>)
        model       == readModel(modelID, in)
        exists      == MapHas(provider.Models, modelID)
        ref         == Sprintf2(providerKey, modelID)
        o           == [Outcome EXCEPT !.loaded = config]
        r1          == [o EXCEPT !.asked = <<"provider">>,
                                 !.read = [provider |-> in.provider]]
        r2          == [r1 EXCEPT !.asked = <<"provider", "id">>,
                                  !.read = [provider |-> in.provider, id |-> in.id],
                                  !.key = providerKey]
        limited     == promptBool(in.limits, FALSE)
        entry       == [provider  |-> in.provider, id |-> in.id, name |-> in.name,
                        limits    |-> in.limits,
                        context   |-> IF limited THEN in.context ELSE NotAsked,
                        output    |-> IF limited THEN in.output ELSE NotAsked,
                        overwrite |-> IF exists THEN in.overwrite ELSE NotAsked]
        r3          == [r2 EXCEPT
                          !.asked = <<"provider", "id", "name", "limits">>
                                    \o (IF exists THEN <<"overwrite">> ELSE <<>>),
                          !.read = entry]
    IN IF l.err THEN Failed
       ELSE IF MapLen(config.Provider) = 0 THEN [o EXCEPT !.out = "empty"]
       ELSE IF selection = <<>> THEN [r1 EXCEPT !.out = "cancelled"]
       ELSE IF ~MapHas(config.Provider, providerKey)
            THEN [r1 EXCEPT !.out = "notfound", !.key = providerKey]
       ELSE IF modelID = <<>> THEN [r2 EXCEPT !.out = "cancelled"]
       ELSE IF exists /\ ~promptBool(in.overwrite, FALSE)
            THEN [r3 EXCEPT !.out = "cancelled"]
       ELSE IF provider.Models.nil THEN [r3 EXCEPT !.out = "panic"]
       ELSE [r3 EXCEPT
               !.out = "saved", !.save = TRUE,
               !.asked = r3.asked \o <<"setDefault">>,
               !.read = r3.read @@ [setDefault |-> in.setDefault],
               !.config =
                   [config EXCEPT
                      !.Provider.kv[providerKey].Models = MapPut(@, modelID, model),
                      !.Model = IF promptBool(in.setDefault, FALSE) THEN ref ELSE @]]

---------------------------------------------------------------------------
(* unnamed/part_000 (mcp.go): addMCPServer and deleteMCPServer *)

\* strings.Fields: the runs of chunks between the whitespace chunks " "
RECURSIVE FieldsFrom(_, _)
FieldsFrom(s, cur) ==
    LET done == IF cur = <<>> THEN <<>> ELSE <<cur>>
    IN IF s = <<>> THEN done
       ELSE IF Head(s) = " " THEN done \o FieldsFrom(Tail(s), <<>>)
       ELSE FieldsFrom(Tail(s), Append(cur, Head(s)))

\* Fields that keeps the string whole
Fields_NoSplit(s) == <<s>>

Fields(s) == FieldsFrom(s, <<>>)

\* a default that is the empty string
DefaultCommand_Empty == <<>>

\* the loop "Add another argument?": script holds, per round, the lines read
\* for the question and for the argument
RECURSIVE argLoop(_, _)
argLoop(cmdArray, script) ==
    IF script = <<>> THEN cmdArray
    ELSE LET e   == Head(script)
             arg == promptString(e.arg, <<>>)
         IN IF ~promptBool(e.more, FALSE) THEN cmdArray
            ELSE argLoop(IF arg # <<>> THEN Append(cmdArray, arg) ELSE cmdArray,
                         Tail(script))

DefaultCommand == <<"npx">>

\* the prompts addMCPServer reaches with the lines in, in order
mcpPrompts(in, exists, local) ==
    <<"name">> \o (IF exists THEN <<"overwrite">> ELSE <<>>) \o <<"type">>
    \o (IF local
        THEN <<"command", "args", "extra", "addEnv">>
             \o (IF promptBool(in.addEnv, FALSE) THEN <<"env">> ELSE <<>>)
        ELSE <<"url", "addHeaders">>
             \o (IF promptBool(in.addHeaders, FALSE) THEN <<"headers">> ELSE <<>>)
             \o <<"oauth">>
             \o (IF promptBool(in.oauth, FALSE)
                 THEN <<"clientId", "clientSecret", "scope">> ELSE <<>>))
    \o <<"enabled", "setTimeout">>
    \o (IF promptBool(in.setTimeout, FALSE) THEN <<"timeout">> ELSE <<>>)

\* unnamed/part_000:10-183
addMCPServer(f, in) ==
    LET l             == loadConfig(f)
        config        == l.config
        serverName    == promptString(in.name, <<>>)
        exists        == MapHas(config.MCP, serverName)
        typeSelection == promptString(in.type, <<"1">>)
        serverType    == IF typeSelection = <<"2">> THEN <<"remote">> ELSE <<"local">>
        local         == serverType = <<"local">>
        command       == promptString(in.command, DefaultCommand)
        args          == promptString(in.args, <<>>)
        cmdArray      == argLoop(IF args # <<>> THEN <<command>> \o Fields(args)
                                 ELSE <<command>>, in.extra)
        envVars       == headerLoop(MakeMap, <<>>, in.env).headers
        url           == promptString(in.url, <<>>)
        headers       == headerLoop(MakeMap, <<>>, in.headers).headers
        clientId      == promptString(in.clientId, <<>>)
        clientSecret  == promptString(in.clientSecret, <<>>)
        scope         == promptString(in.scope, <<>>)
        oauth0        == IF clientId # <<>>
                         THEN MapPut(MakeMap, "clientId", JStr(clientId)) ELSE MakeMap
        oauth1        == IF clientSecret # <<>>
                         THEN MapPut(oauth0, "clientSecret", JStr(clientSecret))
                         ELSE oauth0
        oauthConfig   == IF scope # <<>> THEN MapPut(oauth1, "scope", JStr(scope))
                         ELSE oauth1
        enabled       == promptBool(in.enabled, TRUE)
        timeoutStr    == promptString(in.timeout, <<>>)
        mcpServer ==
            [Type        |-> serverType,
             Command     |-> IF local THEN cmdArray ELSE <<>>,
             Environment |-> IF local /\ promptBool(in.addEnv, FALSE)
                                /\ MapLen(envVars) > 0
                             THEN envVars ELSE NilMap,
             URL         |-> IF local THEN <<>> ELSE url,
             Headers     |-> IF ~local /\ promptBool(in.addHeaders, FALSE)
                                /\ MapLen(headers) > 0
                             THEN headers ELSE NilMap,
             OAuth       |-> IF ~local /\ promptBool(in.oauth, FALSE)
                                /\ MapLen(oauthConfig) > 0
                             THEN oauthConfig ELSE NilMap,
             Enabled     |-> IF ~enabled THEN <<enabled>> ELSE <<>>,
             Timeout     |-> IF promptBool(in.setTimeout, FALSE) /\ timeoutStr # <<>>
                             THEN <<Sscanf(timeoutStr, 0).n>> ELSE <<>>]
        o  == [Outcome EXCEPT !.mkdir = TRUE, !.loaded = config]
        r1 == [o EXCEPT !.asked = <<"name">>, !.read = [name |-> in.name],
                        !.key = serverName]
        r2 == [r1 EXCEPT !.asked = <<"name", "overwrite">>,
                         !.read = [name |-> in.name, overwrite |-> in.overwrite]]
        r3 == [r1 EXCEPT !.asked = <<"name">>
                                   \o (IF exists THEN <<"overwrite">> ELSE <<>>)
                                   \o <<"type", "url">>,
                         !.read = [name |-> in.name, type |-> in.type,
                                   url |-> in.url,
                                   overwrite |-> IF exists THEN in.overwrite
                                                 ELSE NotAsked]]
        r4 == [r1 EXCEPT !.asked = mcpPrompts(in, exists, local),
                         !.read = [overwrite |-> IF exists THEN in.overwrite
                                                 ELSE NotAsked,
                                   timeout |-> IF promptBool(in.setTimeout, FALSE)
                                               THEN in.timeout ELSE NotAsked] @@ in]
    IN IF l.err THEN [Outcome EXCEPT !.out = "error", !.err = TRUE, !.mkdir = TRUE]
       ELSE IF serverName = <<>> THEN [r1 EXCEPT !.out = "cancelled"]
       ELSE IF exists /\ ~promptBool(in.overwrite, FALSE)
            THEN [r2 EXCEPT !.out = "cancelled"]
       ELSE IF ~local /\ url = <<>> THEN [r3 EXCEPT !.out = "invalid"]
       ELSE IF config.MCP.nil THEN [r4 EXCEPT !.out = "panic"]
       ELSE [r4 EXCEPT
               !.out = "saved", !.save = TRUE,
               !.config = [config EXCEPT !.MCP = MapPut(@, serverName, mcpServer)],
               !.status = IF mcpServer.Enabled = <<>> \/ mcpServer.Enabled[1]
                          THEN "enabled" ELSE "disabled"]

\* main.go:514-691 reads the same lines and builds the same entry as r, the
\* outcome of unnamed/part_000:10-183; the status it prints at the end
\* (main.go:685-689) is "enabled" only for an explicit true
addMCPServerMain(r) ==
    IF r.out # "saved" THEN r
    ELSE [r EXCEPT !.status = IF /\ r.config.MCP.kv[r.key].Enabled # <<>>
                                 /\ r.config.MCP.kv[r.key].Enabled[1]
                              THEN "enabled" ELSE "disabled"]

\* provider.go:131-191: read only; what it prints is not recorded
listProviders(f) ==
    LET l == loadConfig(f)
    IN IF l.err THEN Failed
       ELSE IF MapLen(l.config.Provider) = 0
            THEN [Outcome EXCEPT !.out = "empty", !.loaded = l.config]
       ELSE [Outcome EXCEPT !.out = "listed", !.loaded = l.config]

\* unnamed/part_000:206-209 and 266-269: the status shown for a server
enabledStr(server) ==
    IF server.Enabled = <<>> \/ server.Enabled[1] THEN "enabled" ELSE "disabled"

\* main.go:774-777: the status shown by the older enumeration
enabledStrMain(server) ==
    IF server.Enabled # <<>> /\ server.Enabled[1] THEN "enabled" ELSE "disabled"

\* main.go:714-720: the older list prints a status line only for a server that
\* holds the field
statusMain(server) ==
    IF server.Enabled = <<>> THEN "none"
    ELSE IF server.Enabled[1] THEN "enabled" ELSE "disabled"

\* unnamed/part_000:185-242: the status printed for each server; the order
\* of the servers is the map's, the line of each server does not depend on it
listMCPServers(f) ==
    LET l      == loadConfig(f)
        config == l.config
        o      == [Outcome EXCEPT !.loaded = config]
    IN IF l.err THEN Failed
       ELSE IF MapLen(config.MCP) = 0 THEN [o EXCEPT !.out = "empty"]
       ELSE [o EXCEPT !.out = "listed",
                      !.listing = [name \in DOMAIN config.MCP.kv |->
                                     enabledStr(config.MCP.kv[name])]]

\* main.go:693-752
listMCPServersMain(f) ==
    LET l      == loadConfig(f)
        config == l.config
        o      == [Outcome EXCEPT !.loaded = config]
    IN IF l.err THEN Failed
       ELSE IF MapLen(config.MCP) = 0 THEN [o EXCEPT !.out = "empty"]
       ELSE [o EXCEPT !.out = "listed",
                      !.listing = [name \in DOMAIN config.MCP.kv |->
                                     statusMain(config.MCP.kv[name])]]

\* main.go:754-801: the name is typed, and nothing asks for a confirmation
deleteMCPServerByName(f, line) ==
    LET l            == loadConfig(f)
        config       == l.config
        nameToDelete == promptString(line, <<>>)
        o            == [Outcome EXCEPT
                           !.loaded = config,
                           !.listing = [name \in DOMAIN config.MCP.kv |->
                                          enabledStrMain(config.MCP.kv[name])]]
        asked        == [o EXCEPT !.asked = <<"name">>, !.read = [name |-> line],
                                  !.key = nameToDelete]
    IN IF l.err THEN Failed
       ELSE IF MapLen(config.MCP) = 0 THEN [o EXCEPT !.out = "empty"]
       ELSE IF nameToDelete = <<>> THEN [asked EXCEPT !.out = "cancelled"]
       ELSE IF ~MapHas(config.MCP, nameToDelete)
            THEN [asked EXCEPT !.out = "notfound"]
       ELSE [asked EXCEPT !.out = "saved", !.save = TRUE,
                          !.config = [config EXCEPT !.MCP = MapDel(@, nameToDelete)]]

\* unnamed/part_000:244-300
deleteMCPServer(f, keys, choice, confirm) ==
    LET l            == loadConfig(f)
        config       == l.config
        nameToDelete == keys[choice]
        o            == [Outcome EXCEPT
                           !.loaded = config,
                           !.listing = [name \in DOMAIN config.MCP.kv |->
                                          enabledStr(config.MCP.kv[name])]]
        r1           == [o EXCEPT !.asked = <<"choice">>,
                                  !.read = [choice |-> choice, confirm |-> NotAsked]]
        r2           == [o EXCEPT !.asked = <<"choice", "confirm">>,
                                  !.read = [choice |-> choice, confirm |-> confirm],
                                  !.key = nameToDelete]
    IN IF l.err THEN Failed
       ELSE IF MapLen(config.MCP) = 0 THEN [o EXCEPT !.out = "empty"]
       ELSE IF choice = 0 - 1 THEN [r1 EXCEPT !.out = "invalid"]
       ELSE IF choice = 0 THEN [r1 EXCEPT !.out = "cancelled"]
       ELSE IF ~promptBool(confirm, FALSE) THEN [r2 EXCEPT !.out = "cancelled"]
       ELSE [r2 EXCEPT !.out = "saved", !.save = TRUE,
                       !.config = [config EXCEPT !.MCP = MapDel(@, nameToDelete)]]

---------------------------------------------------------------------------
(* The lines the user types, and the files the commands may find *)

\* the longest model script a run of addProvider reads
MaxModels == 2

YesNo == {<<>>, <<"y">>, <<"n">>}

Ollama == <<"ollama">>

Qwen == <<"qwen3-coder">>

Llama == <<"llama3">>

\* the lines up to the model loop: all defaults, or the README's Ollama run
ProviderDetails ==
    {[key |-> <<>>, name |-> <<>>, url |-> <<>>, apiKey |-> <<>>,
      addHeaders |-> <<>>, headers |-> <<>>],
     [key |-> Ollama, name |-> <<"Ollama">>, url |-> DefaultBaseURL,
      apiKey |-> <<"sk-1">>, addHeaders |-> <<"y">>,
      headers |-> <<[name |-> <<"X-Org">>, value |-> <<"acme">>, another |-> <<"y">>]>>]}

\* the lines of one round of the model loop, but for "Add another model?":
\* the README's model with its limits, and a model with every default
ModelEntries ==
    {[id |-> Qwen, name |-> <<"Qwen 3 Coder">>, limits |-> <<"y">>,
      context |-> <<"1", "2", "8", "0", "0", "0">>,
      output |-> <<"6", "5", "5", "3", "6">>],
     [id |-> Llama, name |-> <<>>, limits |-> <<>>,
      context |-> <<>>, output |-> <<>>]}

\* a blank model id
BlankEntry ==
    [id |-> <<>>, name |-> <<>>, limits |-> <<>>, context |-> <<>>, output |-> <<>>]

AddModelEntries == ModelEntries \cup {BlankEntry}

\* model scripts: "Add another model?" is accepted after every round but the last
ModelScripts ==
    UNION {{[i \in 1..n |-> s[i] @@ [another |-> IF i < n THEN <<"y">> ELSE <<>>]] :
              s \in [1..n -> ModelEntries]} : n \in 0..MaxModels}

AddProviderInputs ==
    {d @@ [models |-> ms, setDefault |-> <<>>] :
       d \in ProviderDetails, ms \in ModelScripts}

Selections == {<<>>, <<"1">>, Ollama, <<"nope">>}

\* documents found at the config path that no run of the tool wrote
ProviderDoc(models) ==
    JObj(("npm" :> JStr(NPMPackage)) @@ ("name" :> JStr(<<"Ollama">>))
         @@ ("options" :> JObj("baseURL" :> JStr(DefaultBaseURL)))
         @@ models)

QwenDoc ==
    JObj(("name" :> JStr(<<"Qwen">>))
         @@ ("limit" :> JObj("context" :> JNum(32768))))

ServerDoc ==
    JObj(("type" :> JStr(<<"local">>))
         @@ ("command" :> JArr(<<JStr(<<"npx">>), JStr(<<"-y">>)>>))
         @@ ("enabled" :> JBool(TRUE)))

FullDoc ==
    JObj(("$schema" :> JStr(SchemaURL))
         @@ ("provider" :> JObj(Ollama :> ProviderDoc("models" :> JObj(Qwen :> QwenDoc))))
         @@ ("model" :> JStr(Sprintf2(Ollama, Qwen)))
         @@ ("small_model" :> JStr(Sprintf2(Ollama, Llama)))
         @@ ("enabled_providers" :> JArr(<<JStr(Ollama)>>))
         @@ ("disabled_providers" :> JArr(<<JStr(<<"openai">>), JStr(<<"anthropic">>)>>))
         @@ ("mcp" :> JObj(<<"everything">> :> ServerDoc))
         @@ ("theme" :> JStr(<<"dark">>)))

FoundDocs ==
    {JObj(NoFields),
     JObj(("provider" :> JNull) @@ ("mcp" :> JNull)),
     JObj(("$schema" :> JStr(SchemaURL)) @@ ("provider" :> JObj(NoFields))
          @@ ("small_model" :> JStr(<<>>)) @@ ("enabled_providers" :> JArr(<<>>))
          @@ ("mcp" :> JObj(NoFields))),
     JObj(("provider" :> JObj(Ollama :> ProviderDoc(NoFields)))
          @@ ("model" :> JStr(Sprintf2(Ollama, Llama)))),
     JObj("provider" :> JNum(5)),
     FullDoc}

---------------------------------------------------------------------------
(* The provider commands as a state machine: each step is one run *)

Init ==
    /\ dirExists \in BOOLEAN
    /\ file \in {NoFile} \cup (IF dirExists
                               THEN {Malformed} \cup {JSONFile(d) : d \in FoundDocs}
                               ELSE {})
    /\ last = Idle
    /\ procs = NoProcs
    /\ cycle = NoCycle
    /\ loop = NoLoop

Loaded == loadConfig(file).config

\* the lines of the runs of addProvider, with the key getFirstModelID yields:
\* "Set as default model?" is read only when it is reached
AddProviderLines(f, auto) ==
    UNION {LET b == addProviderBody(f, in0, auto)
           IN {<<[in0 EXCEPT !.setDefault = sd], first>> :
                 sd \in (IF b.asks THEN YesNo ELSE {<<>>}),
                 first \in getFirstModelID(b.provider.Models)} :
           in0 \in AddProviderInputs}

AddProvider ==
    /\ last = Idle
    /\ \E x \in AddProviderLines(file, FALSE) :
          Finish("addProvider", "provider.go", addProvider(file, x[1], FALSE, x[2]))

AddProviderMain ==
    /\ last = Idle
    /\ \E x \in AddProviderLines(file, TRUE) :
          Finish("addProvider", "main.go", addProvider(file, x[1], TRUE, x[2]))

DeleteProvider ==
    /\ last = Idle
    /\ \E keys \in Orders(DOMAIN Loaded.Provider.kv) :
       \E choice \in getMenuChoice(Len(keys)) :
       \E confirm \in (IF choice > 0 THEN YesNo ELSE {<<>>}) :
          Finish("deleteProvider", "provider.go",
                 deleteProvider(file, keys, choice, confirm))

DeleteProviderByKey ==
    /\ last = Idle
    /\ \E line \in Selections :
          Finish("deleteProvider", "main.go", deleteProviderByKey(file, line))

DeleteModel ==
    /\ last = Idle
    /\ \E pairs \in ModelListings(Loaded) :
       \E choice \in getMenuChoice(Len(pairs)) :
       \E confirm \in (IF choice > 0 THEN YesNo ELSE {<<>>}) :
          Finish("deleteModel", "provider.go",
                 deleteModel(file, pairs, choice, confirm))

DeleteModelOfProvider ==
    /\ last = Idle
    /\ \E config \in {Loaded} :
       \E providers \in Orders(DOMAIN config.Provider.kv), line \in Selections :
       \E providerKey \in {resolveProvider(providers, promptString(line, <<>>))} :
       \E modelKeys \in Orders(IF MapHas(config.Provider, providerKey)
                               THEN DOMAIN config.Provider.kv[providerKey].Models.kv
                               ELSE {}) :
       \E choice \in getMenuChoice(Len(modelKeys)) :
       \E confirm \in (IF choice > 0 THEN YesNo ELSE {<<>>}) :
          Finish("deleteModel", "part_001",
                 deleteModelOfProvider(file, providers, line, modelKeys,
                                       choice, confirm))

SetDefaultModel ==
    /\ last = Idle
    /\ \E pairs \in ModelListings(Loaded) :
       \E choice \in getMenuChoice(Len(pairs)) :
          Finish("setDefaultModel", "provider.go", setDefaultModel(file, pairs, choice))

\* a blank line, a model of the found listing, a word that names no model
ModelLines == {<<>>, Sprintf2(Ollama, Qwen), <<"nope">>}

SetDefaultModelLiteral ==
    /\ last = Idle
    /\ \E line \in ModelLines :
          Finish("setDefaultModel", "provider.go:835", setDefaultModelLiteral(file, line))

AddModel ==
    /\ last = Idle
    /\ \E config \in {Loaded} :
       \E providers \in Orders(DOMAIN config.Provider.kv), sel \in Selections :
       \E providerKey \in {resolveProvider(providers, promptString(sel, <<>>))} :
       \E e \in (IF MapHas(config.Provider, providerKey) THEN AddModelEntries
                 ELSE {BlankEntry}) :
       \E ow \in (IF /\ MapHas(config.Provider, providerKey)
                     /\ MapHas(config.Provider.kv[providerKey].Models, e.id)
                  THEN YesNo ELSE {<<>>}),
          sd \in (IF MapHas(config.Provider, providerKey) /\ e.id # <<>>
                  THEN YesNo ELSE {<<>>}) :
          Finish("addModel", "provider.go",
                 addModel(file, providers,
                          [provider |-> sel] @@ e
                          @@ [overwrite |-> ow, setDefault |-> sd]))

Next ==
    \/ AddProvider
    \/ AddProviderMain
    \/ DeleteProvider
    \/ DeleteProviderByKey
    \/ DeleteModel
    \/ DeleteModelOfProvider
    \/ SetDefaultModel
    \/ SetDefaultModelLiteral
    \/ AddModel
    \/ Exit

Spec == Init /\ [][Next]_vars

---------------------------------------------------------------------------
(* The MCP commands as a state machine *)

ServerNames == {<<"my-mcp">>, <<"everything">>}

ServerURL == <<"https:", "/", "/", "mcp.example.com", "/", "mcp">>

\* the lines of a local server: every default, or the README's command with
\* two more arguments, a blank one between them, and one environment variable
LocalRuns ==
    {[command |-> <<>>, args |-> <<>>, extra |-> <<>>, addEnv |-> <<>>, env |-> <<>>],
     [command |-> <<"npx">>,
      args    |-> <<"-y", " ", " ", "@modelcontextprotocol", "/", "server-everything">>,
      extra   |-> <<[more |-> <<"y">>, arg |-> <<"--verbose">>],
                    [more |-> <<"y">>, arg |-> <<>>],
                    [more |-> <<"y">>, arg |-> <<"--port", " ", "8080">>]>>,
      addEnv  |-> <<"y">>,
      env     |-> <<[name |-> <<"API_KEY">>, value |-> <<"secret">>,
                     another |-> <<>>]>>]}

\* the lines of a remote server: no URL, a URL of spaces followed by lines the
\* command leaves unread, a bare URL, or headers and OAuth
RemoteRuns ==
    {[url |-> <<>>],
     [url |-> <<" ", " ">>, addHeaders |-> <<>>, headers |-> <<>>, oauth |-> <<>>,
      clientId |-> <<>>, clientSecret |-> <<>>, scope |-> <<>>],
     [url |-> ServerURL, addHeaders |-> <<>>, headers |-> <<>>, oauth |-> <<>>,
      clientId |-> <<>>, clientSecret |-> <<>>, scope |-> <<>>],
     [url |-> ServerURL, addHeaders |-> <<"y">>,
      headers |-> <<[name |-> <<"Authorization">>, value |-> <<"Bearer t">>,
                     another |-> <<>>]>>,
      oauth |-> <<"y">>, clientId |-> <<"app">>, clientSecret |-> <<>>,
      scope |-> <<"read">>]}

\* the last prompts: "Enable server on startup?" and the timeout
LastLines ==
    {[enabled |-> <<>>, setTimeout |-> <<>>, timeout |-> <<>>],
     [enabled |-> <<"y">>, setTimeout |-> <<"y">>, timeout |-> <<>>],
     [enabled |-> <<"n">>, setTimeout |-> <<"y">>, timeout |-> <<"5", "0", "0", "0">>],
     [enabled |-> <<"n">>, setTimeout |-> <<"y">>, timeout |-> <<"s", "o", "o", "n">>]}

\* the lines after the server name: a remote server without a URL reads no more
AddMCPLines ==
    {[type |-> t] @@ r @@ e : t \in {<<>>, <<"1">>}, r \in LocalRuns, e \in LastLines}
    \cup {[type |-> <<"2">>] @@ r @@ e :
            r \in {x \in RemoteRuns : DOMAIN x # {"url"}}, e \in LastLines}
    \cup {[type |-> <<"2">>] @@ r : r \in {x \in RemoteRuns : DOMAIN x = {"url"}}}

AddMCPServer ==
    /\ last = Idle
    /\ \/ Finish("addMCPServer", "part_000", addMCPServer(file, [name |-> <<>>]))
       \/ \E name \in ServerNames, rest \in AddMCPLines :
          \E ow \in (IF MapHas(Loaded.MCP, name) THEN YesNo ELSE {<<>>}) :
             Finish("addMCPServer", "part_000",
                    addMCPServer(file, [name |-> name, overwrite |-> ow] @@ rest))

AddMCPServerMain ==
    /\ last = Idle
    /\ \/ \E r \in {addMCPServer(file, [name |-> <<>>])} :
             Finish("addMCPServer", "main.go", addMCPServerMain(r))
       \/ \E name \in ServerNames, rest \in AddMCPLines :
          \E ow \in (IF MapHas(Loaded.MCP, name) THEN YesNo ELSE {<<>>}) :
          \E r \in {addMCPServer(file, [name |-> name, overwrite |-> ow] @@ rest)} :
             Finish("addMCPServer", "main.go", addMCPServerMain(r))

DeleteMCPServer ==
    /\ last = Idle
    /\ \E keys \in Orders(DOMAIN Loaded.MCP.kv) :
       \E choice \in getMenuChoice(Len(keys)) :
       \E confirm \in (IF choice > 0 THEN YesNo ELSE {<<>>}) :
          Finish("deleteMCPServer", "part_000",
                 deleteMCPServer(file, keys, choice, confirm))

DeleteMCPServerByName ==
    /\ last = Idle
    /\ \E line \in ServerNames \cup {<<>>, <<"nope">>} :
          Finish("deleteMCPServer", "main.go", deleteMCPServerByName(file, line))

ListMCPServers ==
    /\ last = Idle
    /\ Finish("listMCPServers", "part_000", listMCPServers(file))

ListMCPServersMain ==
    /\ last = Idle
    /\ Finish("listMCPServers", "main.go", listMCPServersMain(file))

NextMCP ==
    \/ AddMCPServer
    \/ AddMCPServerMain
    \/ DeleteMCPServer
    \/ DeleteMCPServerByName
    \/ ListMCPServers
    \/ ListMCPServersMain
    \/ Exit

SpecMCP == Init /\ [][NextMCP]_vars

ListProviders ==
    /\ last = Idle
    /\ Finish("listProviders", "provider.go", listProviders(file))

\* main.go:931-934 and 984-985: without a command, or with a help command,
\* main prints the help and ends with 0
HelpCommands == {"help", "--help", "-h"}

NoArgument ==
    /\ last = Idle
    /\ last' = [Idle EXCEPT !.op = "noArgument", !.src = "main.go", !.out = "help"]
    /\ UNCHANGED <<dirExists, file, procs, cycle, loop>>

ShowHelp ==
    /\ last = Idle
    /\ \E command \in HelpCommands :
          last' = [Idle EXCEPT !.op = "help", !.src = "main.go", !.out = "help",
                               !.read = [command |-> command]]
    /\ UNCHANGED <<dirExists, file, procs, cycle, loop>>

\* main.go:986-989: any other word prints "Unknown command" and the help to the
\* standard output and ends with 1; the older main of unnamed/part_003:401-444
\* does not know the MCP commands
UnknownCommand ==
    /\ last = Idle
    /\ \E src \in {"main.go", "part_003"} :
       \E command \in {"frobnicate"} \cup (IF src = "part_003" THEN {"add-mcp"} ELSE {}) :
          last' = [Idle EXCEPT !.op = "unknown", !.src = src, !.out = "unknown",
                               !.read = [command |-> command], !.exit = 1]
    /\ UNCHANGED <<dirExists, file, procs, cycle, loop>>

\* the lines of an invocation that races: the details of a provider and at
\* most one model
RaceInputs == {in \in AddProviderInputs : Len(in.models) <= 1}

\* provider.go:10-109: MkdirAll, loadConfig, the prompts and the insertion
\* into the Config in memory.  early records that no save had begun.
RaceLoad ==
    \E p \in Procs, in \in RaceInputs :
    \E r \in {addProvider(file, in, FALSE, <<>>)} :
       /\ procs.run[p].pc = "start"
       /\ dirExists' = TRUE
       /\ procs' = [procs EXCEPT
                      !.run[p] = [pc       |-> IF r.err THEN "failed" ELSE "loaded",
                                  config   |-> r.config,
                                  key      |-> r.key,
                                  early    |-> \A q \in Procs :
                                                 procs.run[q].pc \in {"start", "loaded"},
                                  overlaid |-> FALSE]]
       /\ UNCHANGED <<file, last, cycle, loop>>

\* config.go:52, os.WriteFile: the file is opened with O_TRUNC and is empty,
\* which no load can decode; a write of the other process that landed in the
\* file is gone with it
RaceOpen ==
    \E p \in Procs :
       /\ procs.run[p].pc = "loaded"
       /\ file' = Malformed
       /\ procs' = [procs EXCEPT
                      !.run = [q \in Procs |->
                                 IF q = p THEN [procs.run[q] EXCEPT !.pc = "open"]
                                 ELSE IF procs.run[q].pc = "open"
                                      THEN [procs.run[q] EXCEPT !.overlaid = FALSE]
                                      ELSE procs.run[q]]]
       /\ UNCHANGED <<dirExists, last, cycle, loop>>

\* config.go:52, os.WriteFile: the bytes are written at offset 0.  Over an
\* empty file they are the file; over bytes the other process wrote since
\* this one opened the file they replace the head, so that a longer tail of
\* the other document stays and the file is no document at all
RaceWrite ==
    \E p \in Procs :
    \E mine \in {JSONFile(EncConfig(procs.run[p].config))} :
       /\ procs.run[p].pc = "open"
       /\ file' \in (IF procs.run[p].overlaid /\ file # mine
                     THEN {mine, Malformed} ELSE {mine})
       /\ procs' = [procs EXCEPT
                      !.run = [q \in Procs |->
                                 IF q = p THEN [procs.run[q] EXCEPT !.pc = "done"]
                                 ELSE IF procs.run[q].pc = "open"
                                      THEN [procs.run[q] EXCEPT !.overlaid = TRUE]
                                      ELSE procs.run[q]],
                      !.saved = Append(@, p)]
       /\ UNCHANGED <<dirExists, last, cycle, loop>>

NextRace ==
    \/ RaceLoad
    \/ RaceOpen
    \/ RaceWrite

SpecRace == Init /\ [][NextRace]_vars

\* Every command of the tool, each run on a configuration as it was found:
\* no file, an unreadable one, or one of FoundDocs
Found == file \in {NoFile, Malformed} \cup {JSONFile(d) : d \in FoundDocs}

NextAll ==
    \/ Found /\ AddProvider
    \/ Found /\ AddProviderMain
    \/ Found /\ DeleteProvider
    \/ Found /\ DeleteProviderByKey
    \/ Found /\ DeleteModel
    \/ Found /\ DeleteModelOfProvider
    \/ Found /\ SetDefaultModel
    \/ Found /\ SetDefaultModelLiteral
    \/ Found /\ AddModel
    \/ Found /\ AddMCPServer
    \/ Found /\ AddMCPServerMain
    \/ Found /\ DeleteMCPServer
    \/ Found /\ DeleteMCPServerByName
    \/ Found /\ ListMCPServers
    \/ Found /\ ListMCPServersMain
    \/ Found /\ ListProviders
    \/ NoArgument
    \/ ShowHelp
    \/ UnknownCommand
    \/ Exit

SpecAll == Init /\ [][NextAll]_vars

---------------------------------------------------------------------------
(* delete-model on a config whose model ids contain "/" *)

HfLlama == <<"hf", "/", "llama">>

\* a provider with a plain model id and one that contains "/"
SlashDoc(default) ==
    JObj(("$schema" :> JStr(SchemaURL))
         @@ ("provider" :>
               JObj(Ollama :> ProviderDoc("models" :>
                                 JObj((Qwen :> QwenDoc)
                                      @@ (HfLlama :> JObj("name" :> JStr(<<"Llama">>)))))))
         @@ default)

InitSlash ==
    /\ dirExists = TRUE
    /\ file \in {JSONFile(SlashDoc(NoFields)),
                 JSONFile(SlashDoc("model" :> JStr(Sprintf2(Ollama, HfLlama))))}
    /\ last = Idle
    /\ procs = NoProcs
    /\ cycle = NoCycle
    /\ loop = NoLoop

NextSlash ==
    \/ DeleteModel
    \/ DeleteModelOfProvider
    \/ Exit

SpecSlash == InitSlash /\ [][NextSlash]_vars

---------------------------------------------------------------------------
(* One run followed step by step: load, the prompts in turn, the write *)

InitCycle ==
    /\ dirExists \in BOOLEAN
    /\ file \in {NoFile} \cup (IF dirExists
                               THEN {Malformed} \cup {JSONFile(d) : d \in FoundDocs}
                               ELSE {})
    /\ last = Idle
    /\ procs = NoProcs
    /\ cycle = AtShell
    /\ loop = NoLoop

\* a save point that is reached before the prompts are read
savePoint_Early(c) == TRUE

\* the handlers call saveConfig after the last line they read
savePoint(c) == c.i = Len(c.r.asked)

\* promptString, promptBool or the scanner reads the next line
ReadLine ==
    /\ cycle.pc = "running"
    /\ cycle.i < Len(cycle.r.asked)
    /\ cycle' = [cycle EXCEPT !.i = @ + 1]
    /\ UNCHANGED <<dirExists, file, last, procs, loop>>

\* saveConfig in a run that reaches it
Save ==
    /\ cycle.pc = "running"
    /\ cycle.r.save
    /\ cycle.writes = 0
    /\ savePoint(cycle)
    /\ \E s \in {saveConfig(cycle.r.config, dirExists, file)} :
          /\ file' = s.file
          /\ cycle' = [cycle EXCEPT !.writes = 1, !.err = s.err]
    /\ UNCHANGED <<dirExists, last, procs, loop>>

\* the handler returns (or panics) to main
Return ==
    /\ cycle.pc = "running"
    /\ cycle.i = Len(cycle.r.asked)
    /\ cycle.r.save => cycle.writes = 1
    /\ cycle' = [cycle EXCEPT !.pc = "returned"]
    /\ UNCHANGED <<dirExists, file, last, procs, loop>>

\* the process ends
CycleExit ==
    /\ cycle.pc = "returned"
    /\ cycle' = AtShell
    /\ UNCHANGED <<dirExists, file, last, procs, loop>>

\* a command is started from the shell, on a configuration as it was found
Ready == cycle.pc = "shell" /\ Found

NextCycle ==
    \/ Ready /\ AddProvider
    \/ Ready /\ AddProviderMain
    \/ Ready /\ DeleteProvider
    \/ Ready /\ DeleteProviderByKey
    \/ Ready /\ DeleteModel
    \/ Ready /\ DeleteModelOfProvider
    \/ Ready /\ SetDefaultModel
    \/ Ready /\ SetDefaultModelLiteral
    \/ Ready /\ AddModel
    \/ Ready /\ AddMCPServer
    \/ Ready /\ AddMCPServerMain
    \/ Ready /\ DeleteMCPServer
    \/ Ready /\ DeleteMCPServerByName
    \/ Ready /\ ListMCPServers
    \/ Ready /\ ListMCPServersMain
    \/ Ready /\ ListProviders
    \/ ReadLine
    \/ Save
    \/ Return
    \/ CycleExit

SpecCycle == InitCycle /\ [][NextCycle]_vars

---------------------------------------------------------------------------
(* The input loops, one line read per step.  stdin holds the lines still to
   come; at the end of input scanner.Text() is the empty string. *)

MaxLines == 3

MaxBlankReads == 8

Loops == {"headers", "models", "args", "env"}

\* the first prompt of each loop
firstPrompt(name) ==
    CASE name = "headers" -> "headerName"
      [] name = "models"  -> "modelID"
      [] name = "args"    -> "addArgument"
      [] name = "env"     -> "envName"

\* the prompt that follows prompt pc when line was read for it; "exit" when
\* the loop is left
nextPrompt(pc, line) ==
    CASE pc = "headerName"  -> IF promptString(line, <<>>) = <<>> THEN "exit"
                               ELSE "headerValue"
      [] pc = "headerValue" -> "anotherHeader"
      [] pc = "anotherHeader" -> IF promptBool(line, FALSE) THEN "headerName"
                                 ELSE "exit"
      [] pc = "modelID"     -> IF promptString(line, <<>>) = <<>> THEN "exit"
                               ELSE "displayName"
      [] pc = "displayName" -> "configureLimits"
      [] pc = "configureLimits" -> IF promptBool(line, FALSE) THEN "contextLimit"
                                   ELSE "anotherModel"
      [] pc = "contextLimit" -> "outputLimit"
      [] pc = "outputLimit" -> "anotherModel"
      [] pc = "anotherModel" -> IF promptBool(line, FALSE) THEN "modelID"
                                ELSE "exit"
      [] pc = "addArgument" -> IF promptBool(line, FALSE) THEN "argument"
                               ELSE "exit"
      [] pc = "argument"    -> "addArgument"
      [] pc = "envName"     -> IF promptString(line, <<>>) = <<>> THEN "exit"
                               ELSE "envValue"
      [] pc = "envValue"    -> "anotherEnv"
      [] pc = "anotherEnv"  -> IF promptBool(line, FALSE) THEN "envName"
                               ELSE "exit"

\* lines typed: blank, white space, "y", other text
Typed == {<<>>, <<" ">>, <<"y">>, <<"x">>}

RECURSIVE Streams(_)
Streams(n) ==
    IF n = 0 THEN {<<>>}
    ELSE LET shorter == Streams(n - 1)
         IN shorter \cup {<<l>> \o s : l \in Typed, s \in {x \in shorter : Len(x) = n - 1}}

InitLoop ==
    /\ dirExists = TRUE
    /\ file = NoFile
    /\ last = Idle
    /\ procs = NoProcs
    /\ cycle = NoCycle
    /\ \E name \in Loops, stdin \in Streams(MaxLines) :
          loop = [name |-> name, pc |-> firstPrompt(name), stdin |-> stdin,
                  blanks |-> 0]

\* promptString or promptBool reads the line of the prompt loop.pc; blanks
\* counts the blank lines read in a row
ReadPrompt ==
    /\ loop.pc # "exit"
    /\ loop.blanks < MaxBlankReads
    /\ \E line \in {IF loop.stdin = <<>> THEN <<>> ELSE Head(loop.stdin)} :
          loop' = [loop EXCEPT
                     !.pc = nextPrompt(loop.pc, line),
                     !.stdin = IF loop.stdin = <<>> THEN <<>> ELSE Tail(loop.stdin),
                     !.blanks = IF TrimSpace(line) = <<>> THEN @ + 1 ELSE 0]
    /\ UNCHANGED <<dirExists, file, last, procs, cycle>>

NextLoop == ReadPrompt

\* the process runs on: a handler that can read its next line does so
SpecLoop == InitLoop /\ [][NextLoop]_vars /\ WF_vars(ReadPrompt)

---------------------------------------------------------------------------
(* Properties.  Each is stated over the record of the run that ended last. *)

\* the prompt p was shown in the last run
Asked(p) == \E i \in DOMAIN last.asked : last.asked[i] = p

\* what loadConfig reads from the file as it is now
Stored == loadConfig(file).config

\* C1: loadConfig on a path where no file exists returns, without error, a
\* Config whose schema marker is set and whose providers map and mcpServers
\* map are both non-nil and empty, and loading does not create the file.
C1_LoadOfMissingFile ==
    (last.op # "none" /\ last.prev.st = "absent") =>
        /\ ~loadConfig(last.prev).err
        /\ last.loaded.Schema = SchemaURL
        /\ ~last.loaded.Provider.nil /\ MapLen(last.loaded.Provider) = 0
        /\ ~last.loaded.MCP.nil /\ MapLen(last.loaded.MCP) = 0
        /\ (~last.wrote => file.st = "absent")

\* C2: for every existing file that parses as a configuration document,
\* whether its provider and mcp keys are present, absent or null, the Config
\* loadConfig returns has a non-nil providers map and a non-nil mcpServers map.
C2_ParsedMapsNonNil ==
    (last.op # "none" /\ last.prev.st = "json" /\ ~loadConfig(last.prev).err) =>
        /\ last.loaded = loadConfig(last.prev).config
        /\ ~last.loaded.Provider.nil
        /\ ~last.loaded.MCP.nil

\* a run that loaded a document whose provider and mcp keys are both null
C2_Witness ==
    /\ last.op # "none"
    /\ last.prev = JSONFile(JObj(("provider" :> JNull) @@ ("mcp" :> JNull)))
    /\ last.out # "error"
    /\ last.loaded.Provider = MakeMap
    /\ last.loaded.MCP = MakeMap

\* C3: add-MCP-server never crashes and always persists: every run that
\* reaches the end of the prompts (a name, the overwrite confirmed if the name
\* exists, a URL when remote), from every starting state of the file, returns
\* without error and leaves a file whose mcp map holds the entered name.
C3_AddMCPServerPersists ==
    (last.op = "addMCPServer" /\ Asked("setTimeout")) =>
        /\ last.out = "saved"
        /\ ~last.err
        /\ last.wrote
        /\ MapHas(Stored.MCP, last.key)

\* C4: round trip: for every document written by saveConfig, saving what
\* loadConfig reads from it writes the same document, and so does every
\* further load and save.
C4_RoundTrip ==
    last.wrote =>
        LET once  == saveConfig(loadConfig(file).config, dirExists, file)
            twice == saveConfig(loadConfig(once.file).config, dirExists, once.file)
        IN /\ ~loadConfig(file).err
           /\ ~once.err /\ once.file = file
           /\ ~twice.err /\ twice.file = file

\* a written document with passthrough fields and a server that holds an
\* explicit "enabled" and a "timeout"
C4_Witness ==
    /\ last.wrote
    /\ HasKey(file.doc, "small_model")
    /\ HasKey(file.doc, "enabled_providers")
    /\ HasKey(file.doc, "mcp")
    /\ \E n \in DOMAIN Get(file.doc, "mcp").v :
          /\ HasKey(Get(file.doc, "mcp").v[n], "enabled")
          /\ HasKey(Get(file.doc, "mcp").v[n], "timeout")

\* C5: add-provider with a key that already exists in the loaded config asks
\* for an overwrite confirmation before anything is replaced or written.
C5_OverwriteConfirmation ==
    (last.op = "addProvider" /\ ~last.err /\ MapHas(last.loaded.Provider, last.key)) =>
        Asked("overwrite")

\* C6: in add-provider, when two or more models were entered and "Set as
\* default model?" is accepted, the saved default model is the provider key,
\* "/", and the id of the first model entered.
C6_DefaultIsFirstEntered ==
    (/\ last.op = "addProvider"
     /\ last.wrote
     /\ Len(last.read.models) >= 2
     /\ promptBool(last.read.setDefault, FALSE)) =>
        Stored.Model = Sprintf2(last.key, promptString(last.read.models[1].id, <<>>))

\* C7: after a completed add-provider with key K, base URL U and the models
\* entered in the model loop, the saved file holds provider K with the package
\* "@ai-sdk/openai-compatible", options.baseURL = U and every entered model id
\* with the limits entered for it (128000 and 65536 for the README's model, no
\* limit when none was asked for); if exactly one model M was entered and
\* "Set as default model?" was accepted, the default model is "K/M".
C7_AddProviderSaves ==
    (last.op = "addProvider" /\ last.wrote) =>
        LET K      == promptString(last.read.key, DefaultKey)
            P      == Get(Get(file.doc, "provider"), K)
            models == Get(P, "models")
            lines  == last.read.models
        IN /\ last.key = K
           /\ Get(P, "npm") = JStr(NPMPackage)
           /\ Get(Get(P, "options"), "baseURL")
                 = JStr(promptString(last.read.url, DefaultBaseURL))
           /\ \A i \in DOMAIN lines :
                 LET e == lines[i]
                     M == Get(models, e.id)
                 IN /\ HasKey(models, e.id)
                    /\ (\A j \in DOMAIN lines : j > i => lines[j].id # e.id) =>
                          /\ e.context = <<"1", "2", "8", "0", "0", "0">>
                                => Get(Get(M, "limit"), "context") = JNum(128000)
                          /\ e.output = <<"6", "5", "5", "3", "6">>
                                => Get(Get(M, "limit"), "output") = JNum(65536)
                          /\ ~promptBool(e.limits, FALSE) => ~HasKey(M, "limit")
           /\ (Len(lines) = 1 /\ promptBool(last.read.setDefault, FALSE)) =>
                 Get(file.doc, "model") = JStr(Sprintf2(K, lines[1].id))

\* the README's run: provider ollama, model qwen3-coder with its two limits,
\* made the default
C7_Witness ==
    /\ last.op = "addProvider"
    /\ last.wrote
    /\ last.key = Ollama
    /\ Len(last.read.models) = 1
    /\ last.read.models[1].id = Qwen
    /\ promptBool(last.read.setDefault, FALSE)
    /\ Get(file.doc, "model") = JStr(Sprintf2(Ollama, Qwen))
    /\ Get(Get(Get(Get(Get(file.doc, "provider"), Ollama), "models"), Qwen), "limit")
          = JObj(("context" :> JNum(128000)) @@ ("output" :> JNum(65536)))

\* C8: a confirmed delete of provider P while the default model is
\* "P/<some model>" leaves a saved file without a default model.
C8_DeleteProviderClearsDefault ==
    (/\ last.op = "deleteProvider"
     /\ last.wrote
     /\ Len(last.loaded.Model) > Len(last.key) + 1
     /\ SubSeq(last.loaded.Model, 1, Len(last.key) + 1) = last.key \o <<"/">>) =>
        ~HasKey(file.doc, "model")

\* C9: a confirmed delete-model of model M under provider P removes exactly
\* that model: every other model and provider is as it was; the default model
\* is cleared if it was "P/M" before, and is otherwise unchanged.
C9_DeleteModelExact ==
    (last.op = "deleteModel" /\ last.wrote) =>
        LET before == last.loaded
            after  == Stored
        IN \E P \in DOMAIN before.Provider.kv :
           \E M \in DOMAIN before.Provider.kv[P].Models.kv :
              /\ last.key = Sprintf2(P, M)
              /\ DOMAIN after.Provider.kv = DOMAIN before.Provider.kv
              /\ \A Q \in DOMAIN before.Provider.kv \ {P} :
                    after.Provider.kv[Q] = before.Provider.kv[Q]
              /\ [after.Provider.kv[P] EXCEPT !.Models = before.Provider.kv[P].Models]
                    = before.Provider.kv[P]
              /\ DOMAIN after.Provider.kv[P].Models.kv
                    = DOMAIN before.Provider.kv[P].Models.kv \ {M}
              /\ \A m \in DOMAIN after.Provider.kv[P].Models.kv :
                    after.Provider.kv[P].Models.kv[m] = before.Provider.kv[P].Models.kv[m]
              /\ after.Model = IF before.Model = Sprintf2(P, M) THEN <<>>
                               ELSE before.Model
              /\ [after EXCEPT !.Provider = before.Provider, !.Model = before.Model]
                    = before

\* the default model was the deleted model, and the saved file has none; another
\* model of the same provider is still there
C9_Witness ==
    /\ last.op = "deleteModel"
    /\ last.wrote
    /\ last.loaded.Model = last.key
    /\ ~HasKey(file.doc, "model")
    /\ \E P \in DOMAIN Stored.Provider.kv :
          /\ SubSeq(last.key, 1, Len(P)) = P
          /\ MapLen(Stored.Provider.kv[P].Models) > 0

\* C10: delete-provider writes nothing unless a listed provider was selected
\* and the confirmation was accepted.
C10_NoWriteUnlessConfirmed ==
    (last.op = "deleteProvider" /\ last.wrote) =>
        /\ Asked("confirm")
        /\ promptBool(last.read.confirm, FALSE)

\* C11: add-MCP-server with type remote and a blank URL aborts: the file is
\* not written, not created if it did not exist, and the entry of the entered
\* name is neither created nor changed.
C11_BlankURLAborts ==
    (/\ last.op = "addMCPServer"
     /\ Asked("url")
     /\ \A i \in DOMAIN last.read.url : last.read.url[i] = " ") =>
        /\ last.out = "invalid"
        /\ ~last.err
        /\ ~last.wrote
        /\ file = last.prev
        /\ MapHas(Stored.MCP, last.key) = MapHas(last.loaded.MCP, last.key)

\* no file existed, the URL typed was only spaces, and no file exists afterwards
C11_Witness ==
    /\ last.op = "addMCPServer"
    /\ Asked("url")
    /\ last.read.url = <<" ", " ">>
    /\ last.key = <<"my-mcp">>
    /\ last.prev.st = "absent"
    /\ file.st = "absent"

\* C12: the command persisted for a local server is the executable, then the
\* whitespace-separated tokens of the argument string, then each non-blank
\* additional argument, in the order entered: "npx" with the arguments
\* "-y @modelcontextprotocol/server-everything" is saved as
\* ["npx", "-y", "@modelcontextprotocol/server-everything"] plus the additional
\* arguments; with no arguments at all it is the executable alone.
C12_LocalCommand ==
    (/\ last.op = "addMCPServer"
     /\ last.wrote
     /\ Asked("command")) =>
        LET Command == Stored.MCP.kv[last.key].Command
            typed   == [i \in DOMAIN last.read.extra |-> last.read.extra[i].arg]
        IN /\ Len(Command) >= 1
           /\ Command[1] = (IF last.read.command = <<>> THEN <<"npx">>
                            ELSE last.read.command)
           /\ \A i \in DOMAIN Command : Command[i] # <<>>
           /\ \A i \in 2..Len(Command) :
                 \/ " " \notin {Command[i][k] : k \in DOMAIN Command[i]}
                 \/ \E j \in DOMAIN typed : typed[j] = Command[i]
           /\ (last.read.args = <<>> /\ typed = <<>>) => Len(Command) = 1
           /\ (/\ last.read.args = <<"-y", " ", " ", "@modelcontextprotocol", "/",
                                     "server-everything">>
               /\ typed = <<<<"--verbose">>, <<>>, <<"--port", " ", "8080">>>>) =>
                 Command = <<<<"npx">>, <<"-y">>,
                             <<"@modelcontextprotocol", "/", "server-everything">>,
                             <<"--verbose">>, <<"--port", " ", "8080">>>>

\* the README's command with additional arguments was saved
C12_Witness ==
    /\ last.op = "addMCPServer"
    /\ last.wrote
    /\ Asked("command")
    /\ Len(Stored.MCP.kv[last.key].Command) = 5
    /\ Stored.MCP.kv[last.key].Command[3]
          = <<"@modelcontextprotocol", "/", "server-everything">>

\* C13: add-MCP-server writes the "enabled" field only as an explicit false,
\* exactly when "Enable server on startup?" was declined; after "y" or a blank
\* answer the saved entry has no "enabled" field, and true is never written.
C13_EnabledOnlyFalse ==
    (last.op = "addMCPServer" /\ last.wrote) =>
        LET entry == Get(Get(file.doc, "mcp"), last.key)
        IN /\ entry.t = "object"
           /\ (last.read.enabled \in {<<>>, <<"y">>}) => ~HasKey(entry, "enabled")
           /\ (last.read.enabled = <<"n">>) => Get(entry, "enabled") = JBool(FALSE)
           /\ HasKey(entry, "enabled") => last.read.enabled = <<"n">>

\* the answer was blank over an entry that held an explicit "enabled", and the
\* saved entry holds none
C13_Witness ==
    /\ last.op = "addMCPServer"
    /\ last.wrote
    /\ last.read.enabled = <<>>
    /\ HasKey(Get(Get(last.prev.doc, "mcp"), last.key), "enabled")
    /\ ~HasKey(Get(Get(file.doc, "mcp"), last.key), "enabled")

\* C14: wherever the status of a server is shown (at the end of
\* add-MCP-server, in list-MCP-servers, in the enumeration of
\* delete-MCP-server) a server without the "enabled" field is shown as
\* "enabled" and only an explicit false as "disabled"; the status add reports
\* is the status list shows for the saved entry.
C14_StatusRendering ==
    /\ (last.op = "addMCPServer" /\ last.wrote) =>
          /\ last.status = (IF Stored.MCP.kv[last.key].Enabled = <<FALSE>>
                            THEN "disabled" ELSE "enabled")
          /\ last.status = listMCPServers(file).listing[last.key]
    /\ (last.op \in {"listMCPServers", "deleteMCPServer"} /\ ~last.err) =>
          \A name \in DOMAIN last.listing :
             last.listing[name] = (IF last.loaded.MCP.kv[name].Enabled = <<FALSE>>
                                   THEN "disabled" ELSE "enabled")

\* the lines read by the last run fail a validation: a required field left
\* blank, a menu selection cancelled or out of range, a typed key that names
\* nothing, a confirmation declined
BlankRequired ==
    \/ last.op \in {"addMCPServer", "deleteMCPServer"} /\ Asked("name")
       /\ last.read.name = <<>>
    \/ last.op = "addMCPServer" /\ Asked("url") /\ last.read.url = <<>>
    \/ last.op = "deleteProvider" /\ Asked("key") /\ last.read.key = <<>>
    \/ last.op \in {"addModel", "deleteModel"} /\ Asked("provider")
       /\ last.read.provider = <<>>
    \/ last.op = "addModel" /\ Asked("id") /\ last.read.id = <<>>

BadSelection ==
    \/ Asked("choice") /\ last.read.choice \in {0 - 1, 0}
    \/ last.op = "deleteProvider" /\ Asked("key")
       /\ ~MapHas(last.loaded.Provider, last.read.key)
    \/ last.op = "deleteMCPServer" /\ Asked("name")
       /\ ~MapHas(last.loaded.MCP, last.read.name)
    \/ last.op \in {"addModel", "deleteModel"} /\ Asked("provider")
       /\ last.read.provider = <<"nope">>

Declined ==
    \/ Asked("confirm") /\ last.read.confirm \in {<<>>, <<"n">>}
    \/ Asked("overwrite") /\ last.read.overwrite \in {<<>>, <<"n">>}

\* C15: in every operation a validation failure of the user's input (a blank
\* required field, an invalid or out-of-range selection, a key or index that
\* resolves to nothing, a declined confirmation) ends the run without an
\* error and without a save: the file is what it was.
C15_ValidationFailureWritesNothing ==
    (\/ BlankRequired
     \/ BadSelection
     \/ Declined
     \/ last.out \in {"cancelled", "invalid", "notfound"}) =>
        /\ ~last.err
        /\ ~last.wrote
        /\ file = last.prev
        /\ last.out \in {"cancelled", "invalid", "notfound"}

\* a deletion from a file that holds a provider and a server was declined at
\* the confirmation, and the file is what it was
C15_Witness ==
    /\ last.op \in {"deleteProvider", "deleteMCPServer", "deleteModel"}
    /\ Asked("confirm")
    /\ last.read.confirm = <<"n">>
    /\ last.out = "cancelled"
    /\ last.prev = JSONFile(FullDoc)
    /\ file = JSONFile(FullDoc)

\* C16: started with one command, the process ends with status 1 exactly
\* when the command's operation returned an error or the command is unknown,
\* and with 0 in every other case; every returned error is written to the
\* error stream before the process ends.
C16_ExitStatus ==
    (last.op # "none") =>
        /\ (last.exit = 1) <=> (last.err \/ last.op = "unknown")
        /\ (last.exit # 1) => (last.exit = 0)
        /\ last.err => last.stderr

\* the provider/model pairs of a config, written "provider/model"
AllRefs(config) ==
    UNION {{p \o <<"/">> \o m : m \in DOMAIN config.Provider.kv[p].Models.kv}
           : p \in DOMAIN config.Provider.kv}

\* C17: set-default-model lists every provider/model pair of the loaded
\* config, each once; a selection that is not a cancellation (an index k of
\* the list, or in the older form any line typed) becomes the default model
\* and is saved: with an index, the saved default is the k-th pair of the
\* list just printed; nothing else in the config changes.
C17_SetDefaultModel ==
    (last.op = "setDefaultModel" /\ ~last.err /\ last.out # "empty") =>
        IF Asked("choice")
        THEN /\ {last.listing[i] : i \in DOMAIN last.listing} = AllRefs(last.loaded)
             /\ Len(last.listing) = Cardinality(AllRefs(last.loaded))
             /\ (last.read.choice \in 1..Len(last.listing)) =>
                   /\ last.wrote
                   /\ Stored = [last.loaded EXCEPT
                                  !.Model = last.listing[last.read.choice]]
             /\ (last.read.choice \notin 1..Len(last.listing)) => ~last.wrote
        ELSE /\ Asked("model")
             /\ last.listing = AllRefs(last.loaded)
             /\ (last.read.model # <<>>) =>
                   /\ last.wrote
                   /\ Stored = [last.loaded EXCEPT !.Model = last.read.model]
             /\ (last.read.model = <<>>) => ~last.wrote

\* the second pair of a list of two was chosen and is the new default model
C17_Witness ==
    /\ last.op = "setDefaultModel"
    /\ Asked("choice")
    /\ Len(last.listing) = 2
    /\ last.read.choice = 2
    /\ last.wrote
    /\ Stored.Model = last.listing[2]
    /\ last.loaded.Model # last.listing[2]

\* C18: add-model with a model id that the resolved provider already holds
\* asks for an overwrite confirmation: declined, nothing is written and the
\* model stays as it was; confirmed, the model is replaced by the one entered
\* (its name and its limits) and saved.
C18_OverwriteModel ==
    (/\ last.op = "addModel"
     /\ ~last.err
     /\ Asked("id")
     /\ last.read.id # <<>>
     /\ MapHas(last.loaded.Provider.kv[last.key].Models, last.read.id)) =>
        /\ Asked("overwrite")
        /\ (last.read.overwrite \in {<<>>, <<"n">>}) =>
              /\ last.out = "cancelled"
              /\ ~last.wrote
              /\ file = last.prev
              /\ Stored.Provider.kv[last.key].Models.kv[last.read.id]
                    = last.loaded.Provider.kv[last.key].Models.kv[last.read.id]
        /\ (last.read.overwrite = <<"y">>) =>
              /\ last.wrote
              /\ Stored.Provider.kv[last.key].Models.kv[last.read.id]
                    = [Name  |-> IF last.read.name = <<>> THEN last.read.id
                                 ELSE last.read.name,
                       ID    |-> <<>>,
                       Limit |-> IF last.read.limits = <<"y">>
                                 THEN <<[Context |-> 128000, Output |-> 65536]>>
                                 ELSE <<>>]

\* the found model "Qwen" with a context limit only was replaced by the model
\* entered
C18_Witness ==
    /\ last.op = "addModel"
    /\ Asked("overwrite")
    /\ last.read.overwrite = <<"y">>
    /\ last.wrote
    /\ last.loaded.Provider.kv[last.key].Models.kv[last.read.id].Name = <<"Qwen">>
    /\ Stored.Provider.kv[last.key].Models.kv[last.read.id].Name = <<"Qwen 3 Coder">>
    /\ Stored.Provider.kv[last.key].Models.kv[last.read.id].Limit
          = <<[Context |-> 128000, Output |-> 65536]>>

\* C19: two invocations at once take no lock: when both have loaded before
\* either saves, the file after both saves is the Config in memory of the
\* invocation that saved last, and what the other one added is lost.
C19_LastWriterWins ==
    (/\ Len(procs.saved) = 2
     /\ \A p \in Procs : procs.run[p].early) =>
        file = JSONFile(EncConfig(procs.run[procs.saved[2]].config))

\* the same, for saves that do not overlap: no write lands between the open
\* and the write of the other invocation
C19_SavesInTurn ==
    (/\ Len(procs.saved) = 2
     /\ \A p \in Procs : procs.run[p].early
     /\ ~procs.run[procs.saved[2]].overlaid) =>
        /\ file = JSONFile(EncConfig(procs.run[procs.saved[2]].config))
        /\ (procs.run[procs.saved[1]].key # procs.run[procs.saved[2]].key) =>
              (MapHas(Stored.Provider, procs.run[procs.saved[1]].key)
                  <=> MapHas(procs.run[procs.saved[2]].config.Provider,
                             procs.run[procs.saved[1]].key))

\* the passthrough fields
Passthrough == {"small_model", "enabled_providers", "disabled_providers"}

\* C20: every operation that writes (add and delete provider, add and delete
\* model, set-default, add and delete MCP server) writes small_model,
\* enabled_providers and disabled_providers with the values it loaded: none
\* is changed, reordered or dropped.  (A field loaded as the empty string or
\* the empty list is the one its absence stands for, and is written as absent.)
C20_PassthroughKept ==
    (last.wrote /\ last.op # "none") =>
        /\ Stored.SmallModel = last.loaded.SmallModel
        /\ Stored.EnabledProviders = last.loaded.EnabledProviders
        /\ Stored.DisabledProviders = last.loaded.DisabledProviders
        /\ \A k \in Passthrough :
              IF HasKey(last.prev.doc, k)
                 /\ Get(last.prev.doc, k) \notin {JStr(<<>>), JArr(<<>>), JNull}
              THEN Get(file.doc, k) = Get(last.prev.doc, k)
              ELSE ~HasKey(file.doc, k)

\* a server was added to the found document that holds all three fields, and
\* the two disabled providers are written in the order they were found in
C20_Witness ==
    /\ last.op = "addMCPServer"
    /\ last.wrote
    /\ last.prev = JSONFile(FullDoc)
    /\ file # last.prev
    /\ Get(file.doc, "small_model") = JStr(Sprintf2(Ollama, Llama))
    /\ Get(file.doc, "enabled_providers") = JArr(<<JStr(Ollama)>>)
    /\ Get(file.doc, "disabled_providers")
          = JArr(<<JStr(<<"openai">>), JStr(<<"anthropic">>)>>)

\* C21: whenever an operation reaches saveConfig, the directory of the config
\* path exists: the operation created it (add-provider, add-MCP-server), or it
\* reaches the write only after it loaded a non-empty collection from a file
\* that exists in that directory.
C21_DirectoryExistsAtSave ==
    last.save =>
        /\ dirExists
        /\ last.wrote
        /\ ~last.err
        /\ \/ last.op \in {"addProvider", "addMCPServer"}
           \/ /\ last.prevDir
              /\ last.prev.st = "json"
              /\ MapLen(last.loaded.Provider) + MapLen(last.loaded.MCP) > 0

\* add-provider started without the directory and wrote the file
C21_Witness ==
    /\ last.op = "addProvider"
    /\ last.save
    /\ ~last.prevDir
    /\ last.prev.st = "absent"
    /\ dirExists
    /\ file.st = "json"

\* C22: every entry add-MCP-server writes is well-formed. Its type is "local"
\* or "remote"; a local entry has a non-empty command whose first element is
\* the non-empty executable, and no url, headers or oauth; a remote entry has a
\* non-empty url, and no command or environment.
C22_WellFormedEntry ==
    (last.op = "addMCPServer" /\ last.wrote) =>
        LET entry == Get(Get(file.doc, "mcp"), last.key)
            type  == Get(entry, "type")
        IN /\ entry.t = "object"
           /\ type \in {JStr(<<"local">>), JStr(<<"remote">>)}
           /\ (type = JStr(<<"local">>)) =>
                 /\ Get(entry, "command").t = "array"
                 /\ Len(Get(entry, "command").v) >= 1
                 /\ Get(entry, "command").v[1].t = "string"
                 /\ Get(entry, "command").v[1].v # <<>>
                 /\ Get(entry, "command").v[1].v
                       = (IF TrimSpace(last.read.command) = <<>> THEN <<"npx">>
                          ELSE TrimSpace(last.read.command))
                 /\ ~HasKey(entry, "url")
                 /\ ~HasKey(entry, "headers")
                 /\ ~HasKey(entry, "oauth")
           /\ (type = JStr(<<"remote">>)) =>
                 /\ Get(entry, "url").t = "string"
                 /\ Get(entry, "url").v # <<>>
                 /\ ~HasKey(entry, "command")
                 /\ ~HasKey(entry, "environment")

\* a remote entry replaced a local one of the same name, and a local entry was
\* written with the command left blank
C22_Witness ==
    /\ last.op = "addMCPServer"
    /\ last.wrote
    /\ \/ /\ Get(Get(Get(last.prev.doc, "mcp"), last.key), "type") = JStr(<<"local">>)
          /\ Get(Get(Get(file.doc, "mcp"), last.key), "type") = JStr(<<"remote">>)
          /\ HasKey(Get(Get(file.doc, "mcp"), last.key), "url")
       \/ /\ Asked("command")
          /\ last.read.command = <<>>
          /\ Get(Get(Get(file.doc, "mcp"), last.key), "command").v[1] = JStr(<<"npx">>)

\* C23: every entry add-MCP-server writes has a timeout that is absent or a
\* positive integer, whatever text was typed at the timeout prompt, text that
\* is no number included.
C23_TimeoutAbsentOrPositive ==
    (last.op = "addMCPServer" /\ last.wrote) =>
        LET entry == Get(Get(file.doc, "mcp"), last.key)
        IN HasKey(entry, "timeout") =>
              /\ Get(entry, "timeout").t = "number"
              /\ Get(entry, "timeout").v > 0

\* C24: each operation is one load-mutate-save cycle.  It loads exactly once,
\* at its start and before any line is read; it writes at most once; the write
\* is the last effect on the file and no prompt is read after it; a run that
\* ends early (cancelled, invalid input, nothing found, a load error, a crash)
\* has not written and leaves the file as it was loaded.
C24_OneCycle ==
    /\ [][/\ (cycle'.loads > cycle.loads) =>
                /\ cycle.pc = "shell"
                /\ cycle'.loads = 1
                /\ cycle'.i = 0
                /\ cycle'.writes = 0
                /\ file' = file
          /\ (cycle'.pc = "running" /\ cycle'.i > cycle.i) =>
                /\ cycle.loads = 1
                /\ cycle.writes = 0
                /\ file' = file
          /\ (file' # file \/ cycle'.writes > cycle.writes) =>
                /\ cycle.pc = "running"
                /\ cycle.loads = 1
                /\ cycle.writes = 0
                /\ cycle'.writes = 1
          /\ (cycle.pc = "running" /\ cycle.writes = 1) =>
                /\ file' = file
                /\ cycle'.i = cycle.i
                /\ cycle'.pc = "returned"]_vars
    /\ [](cycle.pc = "returned" =>
            /\ cycle.loads = 1
            /\ cycle.writes <= 1
            /\ cycle.i = Len(cycle.r.asked)
            /\ (cycle.r.out # "saved") => (cycle.writes = 0 /\ file = cycle.at))

\* add-provider returned after its prompts were read and one write
C24_Witness ==
    /\ cycle.pc = "returned"
    /\ cycle.op = "addProvider"
    /\ cycle.writes = 1
    /\ cycle.i = Len(cycle.r.asked)
    /\ cycle.i >= 8
    /\ file # cycle.at

\* C25: add-provider changes the default model only when the user answers
\* "Set as default model?" with yes.  When the answer is no or blank, or the
\* question is not put, the saved default model is the loaded one, an empty
\* loaded default included.
C25_DefaultOnlyOnYes ==
    (last.op = "addProvider" /\ last.wrote) =>
        /\ (Stored.Model # last.loaded.Model) =>
              /\ Asked("setDefault")
              /\ promptBool(last.read.setDefault, FALSE)
        /\ (last.loaded.Model = <<>> /\ ~(Asked("setDefault")
                                           /\ promptBool(last.read.setDefault, FALSE))) =>
              ~HasKey(file.doc, "model")

\* the default model of a config is empty or names a model of a provider it has
ValidDefault(config) == config.Model = <<>> \/ config.Model \in AllRefs(config)

\* C26: referential integrity of the default model.  From a config whose
\* default is empty or names an existing provider/model pair, every saving run
\* of add-provider, add-model, delete-provider, delete-model or set-default
\* leaves a saved default that is empty (absent) or "<providerKey>/<modelId>"
\* of a provider that exists and holds that model; hence so does every
\* sequence of such runs.
C26_DefaultRefersToModel ==
    (/\ last.op \in {"addProvider", "addModel", "deleteProvider", "deleteModel",
                     "setDefaultModel"}
     /\ last.wrote
     /\ ValidDefault(last.loaded)) =>
        /\ ValidDefault(Stored)
        /\ HasKey(file.doc, "model") => Get(file.doc, "model").v \in AllRefs(Stored)

\* C27: add-model never crashes on a provider it resolved.  With a non-blank
\* model id (and no declined overwrite) the model is inserted and saved, also
\* under a provider whose "models" key is absent or null in the file.
C27_AddModelNeverCrashes ==
    (/\ last.op = "addModel"
     /\ Asked("id")
     /\ TrimSpace(last.read.id) # <<>>
     /\ last.out # "cancelled") =>
        /\ last.out = "saved"
        /\ last.wrote
        /\ last.exit = 0
        /\ MapHas(Stored.Provider.kv[last.key].Models, TrimSpace(last.read.id))

\* the number of models a config holds, over all providers
ModelCount(config) == Cardinality(AllRefs(config))

\* C28: every model that delete-model lists can be deleted: choosing its
\* index and confirming removes it and saves, also when the model id or the
\* provider key contains "/".
C28_ListedModelDeletable ==
    (/\ last.op = "deleteModel"
     /\ ~last.err
     /\ Asked("choice")
     /\ last.read.choice > 0
     /\ Asked("confirm") => promptBool(last.read.confirm, FALSE)) =>
        /\ last.out = "saved"
        /\ last.wrote
        /\ ModelCount(Stored) = ModelCount(last.loaded) - 1

\* the keys under which two Go maps differ: present in one only, or holding
\* different values
Differing(m1, m2) ==
    {k \in (DOMAIN m1.kv) \cup (DOMAIN m2.kv) :
        \/ ~(MapHas(m1, k) /\ MapHas(m2, k))
        \/ m1.kv[k] # m2.kv[k]}

BodyLen(name) ==
    CASE name = "headers" -> 3
      [] name = "models"  -> 6
      [] name = "args"    -> 2
      [] name = "env"     -> 3

\* only blank lines are still to come (the end of input reads as blank)
BlankFromHere ==
    \A i \in DOMAIN loop.stdin : TrimSpace(loop.stdin[i]) = <<>>

\* C30: every input loop (headers, models, additional arguments, environment
\* variables) ends once the user stops supplying data: when every line still
\* to be read is blank or the input has ended, the loop is left, after no more
\* blank lines than one iteration has prompts.
C30_LoopsEndOnBlankInput ==
    /\ [](loop.name \in Loops => loop.blanks <= BodyLen(loop.name))
    /\ (loop.name \in Loops /\ BlankFromHere) ~> (loop.pc = "exit")

\* the models loop was left in the middle of an entry: the id was typed, then
\* the input ended
C30_Witness ==
    /\ loop.name = "models"
    /\ loop.pc = "exit"
    /\ loop.stdin = <<>>
    /\ loop.blanks = 3

====
